---------------------------- MODULE Spec2Model ----------------------------
(***************************************************************************)
(* A model of the multi-round agentic control loop of myagent:             *)
(*   - ManusAgent.execute            (src/core/agent.py)                   *)
(*   - ExpertAgent.execute_async / execute (src/core/expert_agent.py)      *)
(*   - MultiAgentOrchestrator.run    (src/core/multi_agent.py)             *)
(*                                                                         *)
(* Spec      : one execution of one of the two loop implementations; Init  *)
(*             picks the implementation (impl) and the query.              *)
(* SpecOrch  : MultiAgentOrchestrator.run called from several threads on   *)
(*             one orchestrator; the calls overlap at the waits of run()   *)
(*             and at the loads and stores of update_expert_performance.   *)
(* SpecSeq   : the same calls when they come one after the other.          *)
(* SpecSelect: select_expert applied to seeded performance counters.       *)
(* SpecRegistry: a sequence of ToolRegistry.register calls                 *)
(*             (src/core/registry.py).                                     *)
(* SpecPlan  : one call of plan() of either implementation, on the LLM's   *)
(*             responses to as many invocations as it could make.          *)
(* SpecParse : ManusAgent._parse_tool_result calls with registrations in   *)
(*             the agent's registry between them.                          *)
(*                                                                         *)
(* Strings the code only passes around are abstracted to tokens; every     *)
(* test the code makes on a string is modelled by an operator on tokens.   *)
(***************************************************************************)
EXTENDS Naturals, Sequences, FiniteSets, TLC

VARIABLES
    \* ---- the loop implementations (Spec) ----
    impl,              \* "manus" | "expert" | "none": the implementation under execution
    self_name,         \* ExpertAgent.name ("" for ManusAgent)
    user_input,        \* the query, as the features the code tests on it
    pc,                \* "plan" | "dispatch" | "final" | "done"
    round_num,         \* round_num
    tool_logs,         \* tool_logs: sequence of [step, tool, input, output]
    llm_thoughts,      \* llm_thoughts: the rounds that appended a thought
    plans,             \* plans
    first_plan,        \* current_plan of round 1 as plan() returned it (history)
    final_answer,      \* final_answer
    current_plan,      \* current_plan of the round being dispatched
    step_i,            \* index of the next step of current_plan (the for loop)
    current_tool_logs, \* current_tool_logs
    tools_executed,    \* tools_executed (ManusAgent)
    round_success,     \* round_success (ManusAgent)
    extracted_urls,    \* extracted_urls (ManusAgent)
    failed_tools,      \* failed_tools (ManusAgent)
    tried_urls,        \* tried_urls (ManusAgent)
    outcome,           \* "running" | "returned" | "raised": how execute() ended
    result,            \* the returned record (keys of the dict execute() returns)
    \* history of the execution (not program state)
    plan_calls,        \* number of self.plan(...) invocations
    planned,           \* number of plan steps handed out by the planner so far
    calls,             \* every tool.call(...) made: [tool, input, pretried, out, logged]
    synth,             \* what the final-answer block did: "none" | "skipped" (answer kept) |
                       \* "canned" | "llm" (summary call answered) | "llm_raised"
    ended_by,          \* "" | "direct" | "no_tools" | "completed" | "enough_logs" | "budget"
    no_dispatch_round, \* a round whose plan had no dispatchable step has ended (0: none yet)
    \* ---- the orchestrator (SpecOrch, SpecSelect) ----
    expert_performance, \* self.expert_performance: expert -> [success, total]
    selection_history,  \* self.selection_history: sequence of [expert, success]
    run_count,          \* number of run() calls made (history)
    last_run,           \* the inputs, the path and the returned record of the last run() (history)
    selected,           \* the last select_expert() call: query, LLM answer, primary choice, result
    \* ---- the run() calls in flight on the orchestrator (SpecOrch, SpecSeq) ----
    threads,            \* thread -> its position in run() (pc) and the locals of its call
    \* ---- a ToolRegistry (SpecRegistry) ----
    tools,              \* self.tools: the items of the dict name -> tool
    last_register,      \* the last register() call and how it ended (history)
    \* ---- one call of plan() (SpecPlan) ----
    last_plan,          \* the last plan() call: the LLM's answers, the invocations made, the result
    \* ---- calls of _parse_tool_result (SpecParse) ----
    parse_log           \* the calls made so far: sequence of [raw, registry, outcome] (history)

loopVars == <<impl, self_name, user_input, pc, round_num, tool_logs, llm_thoughts, plans,
              first_plan,
              final_answer, current_plan, step_i, current_tool_logs,
              tools_executed, round_success, extracted_urls, failed_tools,
              tried_urls, outcome, result, plan_calls, planned, calls, synth,
              ended_by, no_dispatch_round>>
orchVars == <<expert_performance, selection_history, run_count, last_run, selected>>
sideVars == <<threads, tools, last_register, last_plan, parse_log>>
vars == <<loopVars, orchVars, sideVars>>

-----------------------------------------------------------------------------
(* Bounds of the model *)

\* longest plan the planner returns in one round
MaxPlanLen == 3
\* plan steps the planner hands out in one execution, all rounds together
MaxSteps == 3
\* threads calling run() on one orchestrator at the same time
MaxThreads == 2
\* _parse_tool_result calls made one after the other
MaxParses == 3
\* register() calls made on one registry
MaxRegisters == 4
\* distinct tool objects that carry the same name
MaxSameName == 2

(* Program constants *)

\* @error_handler(max_retries=2, ...) on ManusAgent.plan
PlanMaxRetries == 2
\* ManusAgent.execute: max_rounds = 3
ManusMaxRounds == 3
\* ExpertAgent.execute_async: max_rounds = 5
ExpertMaxRounds == 5
\* ManusAgent.execute: image_urls[:3]
MaxDownloadTries == 3
\* ExpertAgent.execute_async: len(tool_logs) >= 3 ends an ordinary query
EnoughLogs == 3
\* ExpertAgent.execute_async: len(tool_logs) >= 4 and round_num >= 3 (complex web query)
EnoughLogsComplex == 4
EnoughRoundsComplex == 3

max_rounds == IF impl = "expert" THEN ExpertMaxRounds ELSE ManusMaxRounds

-----------------------------------------------------------------------------
(* Data *)

\* Tool names.  ManusAgent's registry holds the four tools below; "ghost"
\* is a name the planner may write that no registry resolves.
ManusTools == {"web_search", "web_download", "web_screenshot", "calc"}
ExpertTools == {"web_search", "web_browser", "document_reader"}
GhostTool == "ghost"

\* registry.get_tool(name) is not None
Registry == IF impl = "expert" THEN ExpertTools ELSE ManusTools

\* URLs a search result may carry.  ImageUrls are the ones
\* _extract_image_urls accepts (an image extension or an image host),
\* ExampleUrl is a placeholder URL (contains example.com).
ImageUrls == {"http://h.test/a.png", "http://h.test/b.jpg"}
PageUrls == {"http://h.test/page"}
ExampleUrl == "https://example.com/x"

\* details.results of a successful web_search, as the url fields in order
SearchPayloads ==
    { <<"http://h.test/page">>,
      <<"https://example.com/x", "http://h.test/a.png", "http://h.test/b.jpg", "http://h.test/a.png">> }

\* What tool.call returns ("success"/"failed": a JSON record with that
\* status) or that it raises.
ToolReturns == {"success", "failed"}
ToolOutcomes == ToolReturns \cup {"raise"}

\* Output strings the loop itself writes into a log entry.
OutException == "[Exception]"
OutNotFound == "[Error] tool not found"
OutInfo == "[Info]"
OutSkipped == "[skipped]"
\* A string a tool hands back that holds one of the markers "[Error]" and
\* "[跳过]" somewhere in its text (plain text, a JSON record of status
\* success whose content quotes a marker, "[Error] 工具 X 没有 call 方法"
\* of _execute_tool_safely), and the "[Exception] ..." output of a call
\* whose exception message holds a marker.
OutTextMarked == "text quoting [Error]"
OutExceptionMarked == "[Exception] [Error]"
\* tool.call raises an exception whose message holds a marker
RaiseMarked == "raise [Error]"
\* the registered object has no call attribute: nothing is called
NoCallMethod == "no call method"

\* ExpertAgent never reads the status of a result, it only looks for the
\* markers in the output: a returned string without a marker, one with a
\* marker, and a raised call without and with a marker in its message
\* stand for all outcomes of a call; an object without call() is not called
ExpertToolOutcomes == {"success", "raise", OutTextMarked, RaiseMarked, NoCallMethod}
\* Further raw strings _parse_tool_result can be given: a JSON record whose
\* "status" is some other value, and a JSON record without a "status" key.
OutOtherStatus == "{status: error}"
OutNoStatus == "{message: m}"

\* Values of a final_answer field: a non-empty string, the empty string,
\* JSON null, a truthy non-string (a number, a list), and the strings the
\* code builds itself.  The LLM of the loops answers with the first three.
AnsStr == "str"
AnsEmpty == ""
AnsNull == "null"
AnsNonStr == "nonstr"
AnsDigest == "digest"
AnsCanned == "canned"
AnsErrMsg == "errmsg"
LlmAnswers == {AnsStr, AnsEmpty, AnsNull}
\* final_answer of a need_tool=false decision (a missing key reads as "")
DirectAnswers == {AnsStr, AnsEmpty}

IsString(a) == a \notin {AnsNull, AnsNonStr}
\* Python truthiness: `not final_answer`
Truthy(a) == a \notin {AnsEmpty, AnsNull}

WellFormed(t, inp) == [tool |-> t, input |-> inp, wellformed |-> TRUE]
\* a plan element that is not a JSON object (step.get raises AttributeError)
BadStep == [tool |-> "", input |-> "", wellformed |-> FALSE]

ManusSteps == { WellFormed(t, "q") : t \in ManusTools \cup {GhostTool} } \cup {BadStep}
\* a web_browser input in the format plan() asks for and produces
BrowserInput == "action=\"go_to_url\" url=u"
\* a web_browser input that holds the text action=go_to_url unquoted
BrowserInputBare == "action=go_to_url u"
\* steps the planner of an expert writes; further steps come from the
\* fallback plan of ExpertAgent.plan (web_search, document_reader)
ExpertSteps ==
    { WellFormed("document_reader", "a"), WellFormed(GhostTool, "a"),
      WellFormed("web_browser", BrowserInput) }

SeqsUpTo(S, n) == UNION { [1..k -> S] : k \in 0..n }

-----------------------------------------------------------------------------
(* Pure functions of ManusAgent *)

\* json.loads(tool_output) gave a dict with a "status" key
HasStatus(out) == out \in {"success", "failed", OutOtherStatus}
\* result["status"] of such a dict
StatusOf(out) == IF out = OutOtherStatus THEN "error" ELSE out

\* self as the methods of ManusAgent reach it: self.registry, the registry
\* of the core with the tools registered so far (self.llm and
\* self.langsmith_tracer are collaborators the agent only calls)
Self == [registry |-> tools]

\* an interpreter with a memory: it reads the status only on its first call
ParseToolResultRemembers(agent, tool_output) ==
    [status |-> IF parse_log = <<>> /\ HasStatus(tool_output)
                THEN StatusOf(tool_output) ELSE "unknown",
     message |-> tool_output]

\* _parse_tool_result(self, tool_output): a JSON record with a "status" key
\* is returned as parsed, whatever the status; everything else becomes
\* status "unknown".  The body reads tool_output and nothing of self.
ParseToolResult(agent, tool_output) ==
    [status |-> IF HasStatus(tool_output) THEN StatusOf(tool_output) ELSE "unknown",
     message |-> tool_output]

\* _is_tool_successful
IsToolSuccessful(parsed) == parsed.status = "success"

Succeeded(out) == IsToolSuccessful(ParseToolResult(Self, out))

RECURSIVE DedupFilter(_, _)
\* the "filter and dedup" loop of _extract_urls_from_search_results
DedupFilter(urls, seen) ==
    IF urls = <<>> THEN <<>>
    ELSE LET u == Head(urls) IN
         IF u # ExampleUrl /\ u \notin seen
         THEN <<u>> \o DedupFilter(Tail(urls), seen \cup {u})
         ELSE DedupFilter(Tail(urls), seen)

\* _extract_urls_from_search_results on a successful structured result
ExtractUrlsFromSearchResults(payload) == DedupFilter(payload, {})

IsImageUrl(u) == u \in ImageUrls

\* _extract_image_urls
ExtractImageUrls(urls) == SelectSeq(urls, IsImageUrl)

NotTried(u) == u \notin tried_urls

Take(s, n) == IF Len(s) <= n THEN s ELSE SubSeq(s, 1, n)

AnySuccess(logs, toolset) ==
    \E k \in 1..Len(logs) : logs[k].tool \in toolset /\ Succeeded(logs[k].output)

AllToolNames == ManusTools \cup ExpertTools \cup {GhostTool}

\* _is_task_completed
IsTaskCompleted(q, logs) ==
    IF q.image /\ AnySuccess(logs, {"web_download", "web_screenshot"}) THEN TRUE
    ELSE IF q.search /\ AnySuccess(logs, {"web_search"}) THEN TRUE
    ELSE AnySuccess(logs, AllToolNames)

\* the loop test with the budget off by one
LoopCondInclusive(r, m) == r <= m
\* while round_num < max_rounds
LoopCond(r, m) == r < m


-----------------------------------------------------------------------------
(* ManusAgent.execute: one plan step of the for loop *)

\* a log entry; k is 1 for the step's own entries and 2 for a substitute's
Entry(k, t, inp, out) ==
    [step |-> Len(tool_logs) + k, tool |-> t, input |-> inp, output |-> out]

\* one tool.call(...): pretried says the URL was in tried_urls before this
\* attempt, logged that an entry was appended to current_tool_logs for it
Call(t, inp, pre, o, lg) ==
    [tool |-> t, input |-> inp, pretried |-> pre, out |-> o, logged |-> lg]

OutputOf(o) == IF o = "raise" THEN OutException ELSE o

\* the loop state a step works on
StepState(t) ==
    [ctl |-> current_tool_logs, rs |-> round_success, failed |-> failed_tools,
     tried |-> tried_urls, extracted |-> extracted_urls,
     texec |-> tools_executed \cup {t}, calls |-> calls]

\* tool not in the registry
NotFoundEffect(t, inp) ==
    LET b == StepState(t) IN
    [b EXCEPT !.ctl = Append(b.ctl, Entry(1, t, inp, OutNotFound)), !.rs = FALSE]

\* a call that raised outside the branch's own try (the handler of the step)
StepExceptionEffect(b, t, inp) ==
    [b EXCEPT !.ctl = Append(b.ctl, Entry(1, t, inp, OutException)),
              !.rs = FALSE,
              !.failed = b.failed \cup {t},
              !.calls = Append(b.calls, Call(t, inp, FALSE, "raise", TRUE))]

\* new_urls = [url for url in new_urls if url not in tried_urls]
NewUrls(payload) == SelectSeq(ExtractUrlsFromSearchResults(payload), NotTried)

\* the web_search branch
SearchEffect(inp, o, payload) ==
    LET b == StepState("web_search") IN
    IF o = "raise" THEN StepExceptionEffect(b, "web_search", inp)
    ELSE [b EXCEPT
            !.ctl = Append(b.ctl, Entry(1, "web_search", inp, o)),
            !.extracted = IF o = "success" THEN b.extracted \o NewUrls(payload)
                          ELSE b.extracted,
            !.rs = IF o = "success" THEN b.rs ELSE FALSE,
            !.failed = IF o = "success" THEN b.failed ELSE b.failed \cup {"web_search"},
            !.calls = Append(b.calls, Call("web_search", inp, FALSE, o, TRUE))]

\* one iteration of `for img_url in image_urls[:3]`
DownloadAttempt(st, u, o) ==
    [st EXCEPT
        !.tried = st.tried \cup {u},
        !.ctl = Append(st.ctl, Entry(1, "web_download", u, OutputOf(o))),
        !.success = (o = "success"),
        !.rs = IF o = "success" THEN TRUE ELSE st.rs,
        !.failed = IF o = "failed" THEN st.failed \cup {"web_download"} ELSE st.failed,
        !.calls = Append(st.calls, Call("web_download", u, u \in st.tried, o, TRUE))]

RECURSIVE DownloadLoopNoBreak(_, _, _, _)
\* the loop over the candidates without the break at the first success
DownloadLoopNoBreak(cands, outs, k, st) ==
    IF k > Len(cands) THEN st
    ELSE DownloadLoopNoBreak(cands, outs, k + 1, DownloadAttempt(st, cands[k], outs[k]))

RECURSIVE DownloadLoop(_, _, _, _)
\* `for img_url in image_urls[:3]` with its break at the first success
DownloadLoop(cands, outs, k, st) ==
    IF k > Len(cands) \/ st.success THEN st
    ELSE DownloadLoop(cands, outs, k + 1, DownloadAttempt(st, cands[k], outs[k]))

\* image_urls of the web_download branch
DownloadCandidates == SelectSeq(ExtractImageUrls(extracted_urls), NotTried)

\* `if "web_screenshot" not in failed_tools and extracted_urls:` and the
\* registry lookup of the substitute
ScreenshotFallbackAllowed(failed) ==
    /\ "web_screenshot" \notin failed
    /\ extracted_urls # <<>>
    /\ "web_screenshot" \in Registry

\* the substitute web_screenshot call of a web_download step
ScreenshotFallback(b, fo) ==
    LET u == extracted_urls[1] IN
    IF fo = "raise"
    THEN [b EXCEPT !.calls = Append(b.calls, Call("web_screenshot", u, u \in b.tried, fo, FALSE))]
    ELSE [b EXCEPT
            !.ctl = Append(b.ctl, Entry(2, "web_screenshot", u, fo)),
            !.texec = b.texec \cup {"web_screenshot"},
            !.rs = IF fo = "success" THEN TRUE ELSE b.rs,
            !.failed = IF fo = "success" THEN b.failed \ {"web_download"} ELSE b.failed,
            !.calls = Append(b.calls, Call("web_screenshot", u, u \in b.tried, fo, TRUE))]

\* the web_download branch
DownloadEffect(inp, outs, fo) ==
    LET b == StepState("web_download")
        cands == DownloadCandidates
    IN IF cands # <<>>
       THEN LET st == DownloadLoop(Take(cands, MaxDownloadTries), outs, 1,
                                   [b EXCEPT !.ctl = b.ctl] @@ [success |-> FALSE])
            IN [ctl |-> st.ctl, rs |-> st.rs, failed |-> st.failed, tried |-> st.tried,
                extracted |-> st.extracted, texec |-> st.texec, calls |-> st.calls]
       ELSE LET b1 == [b EXCEPT
                        !.ctl = Append(b.ctl, Entry(1, "web_download", inp, OutInfo)),
                        !.rs = FALSE,
                        !.failed = b.failed \cup {"web_download"}]
            IN IF ScreenshotFallbackAllowed(b1.failed)
               THEN ScreenshotFallback(b1, fo)
               ELSE b1

\* webpage_urls of the web_screenshot branch
ScreenshotCandidates ==
    LET image_urls == ExtractImageUrls(extracted_urls)
        NotImage(u) == \A k \in 1..Len(image_urls) : image_urls[k] # u
    IN SelectSeq(SelectSeq(extracted_urls, NotImage), NotTried)

\* a substitute that is tried whatever failed_tools holds
DownloadFallbackAlways(failed) == "web_download" \in Registry

\* `if "web_download" not in failed_tools:` and the registry lookup
DownloadFallbackAllowed(failed) ==
    /\ "web_download" \notin failed
    /\ "web_download" \in Registry

\* the substitute web_download call of a failed web_screenshot step
DownloadFallback(b, u, fo) ==
    IF fo = "raise"
    THEN [b EXCEPT !.calls = Append(b.calls, Call("web_download", u, u \in b.tried, fo, FALSE))]
    ELSE [b EXCEPT
            !.ctl = Append(b.ctl, Entry(2, "web_download", u, fo)),
            !.texec = b.texec \cup {"web_download"},
            !.rs = IF fo = "success" THEN TRUE ELSE b.rs,
            !.failed = IF fo = "success" THEN b.failed \ {"web_screenshot"} ELSE b.failed,
            !.calls = Append(b.calls, Call("web_download", u, u \in b.tried, fo, TRUE))]

\* the generic branch: tool.call(tool_input) in its own try
GenericEffect(t, inp, o) ==
    LET b == StepState(t) IN
    IF o = "raise" THEN StepExceptionEffect(b, t, inp)
    ELSE [b EXCEPT
            !.ctl = Append(b.ctl, Entry(1, t, inp, o)),
            !.rs = (o = "success"),
            !.failed = IF o = "success" THEN b.failed ELSE b.failed \cup {t},
            !.calls = Append(b.calls, Call(t, inp, FALSE, o, TRUE))]

\* the web_screenshot branch (taken only when extracted_urls is not empty)
ScreenshotEffect(inp, o, fo) ==
    LET b == StepState("web_screenshot")
        cands == ScreenshotCandidates
    IN IF cands # <<>>
       THEN LET u == cands[1]
                b0 == [b EXCEPT !.tried = b.tried \cup {u}]
                c == Call("web_screenshot", u, u \in b.tried, o, TRUE)
            IN IF o = "raise"
               THEN [b0 EXCEPT
                        !.ctl = Append(b0.ctl, Entry(1, "web_screenshot", u, OutException)),
                        !.rs = FALSE,
                        !.failed = b0.failed \cup {"web_screenshot"},
                        !.calls = Append(b0.calls, c)]
               ELSE IF o = "success"
               THEN [b0 EXCEPT
                        !.ctl = Append(b0.ctl, Entry(1, "web_screenshot", u, o)),
                        !.rs = TRUE,
                        !.calls = Append(b0.calls, c)]
               ELSE LET b1 == [b0 EXCEPT
                                !.ctl = Append(b0.ctl, Entry(1, "web_screenshot", u, o)),
                                !.rs = FALSE,
                                !.failed = b0.failed \cup {"web_screenshot"},
                                !.calls = Append(b0.calls, c)]
                    IN IF DownloadFallbackAllowed(b1.failed)
                       THEN DownloadFallback(b1, u, fo)
                       ELSE b1
       ELSE [b EXCEPT
                !.ctl = Append(b.ctl, Entry(1, "web_screenshot", inp, OutInfo)),
                !.rs = FALSE,
                !.failed = b.failed \cup {"web_screenshot"}]

\* every way one well-formed plan step can end
ManusStepEffects(step) ==
    LET t == step.tool
        inp == step.input
    IN IF t \notin Registry THEN { NotFoundEffect(t, inp) }
       ELSE IF t = "web_search"
       THEN { SearchEffect(inp, o, p) : o \in ToolOutcomes, p \in SearchPayloads }
       ELSE IF t = "web_download"
       THEN { DownloadEffect(inp, outs, fo) :
                 outs \in [1..MaxDownloadTries -> ToolOutcomes], fo \in ToolOutcomes }
       ELSE IF t = "web_screenshot" /\ extracted_urls # <<>>
       THEN { ScreenshotEffect(inp, o, fo) : o \in ToolOutcomes, fo \in ToolOutcomes }
       ELSE { GenericEffect(t, inp, o) : o \in ToolOutcomes }


-----------------------------------------------------------------------------
(* Initial states *)

NoResult == [final_answer |-> AnsEmpty]

ExpertNames == {"search_expert", "document_expert", "general_expert"}
\* self.experts in the order _initialize_experts builds the dict
ExpertOrder == <<"search_expert", "document_expert", "general_expert">>

\* no run() has returned yet
NoRun == [stage |-> "idle"]
\* no select_expert() has returned yet
NoSelection ==
    [query |-> [isstr |-> FALSE, japan |-> FALSE, search_kw |-> FALSE, doc_kw |-> FALSE],
     llm |-> "", primary |-> "", chosen |-> ""]

\* MultiAgentOrchestrator.__init__: the counters and the history
OrchIdle ==
    /\ expert_performance = [e \in ExpertNames |-> [success |-> 0, total |-> 0]]
    /\ selection_history = <<>>
    /\ run_count = 0
    /\ last_run = NoRun
    /\ selected = NoSelection

\* the threads that call run() on one orchestrator
Threads == 1..MaxThreads
\* a thread that is not inside run()
IdleThread ==
    [pc |-> "idle", query |-> NoSelection.query, primary |-> "", expert |-> "",
     ex |-> [ended |-> "not run",
             answer |-> [by |-> "nobody", kind |-> "none", slen |-> 0,
                         neg |-> FALSE, pos |-> FALSE],
             msg |-> [mlen |-> 0, neg |-> FALSE, pos |-> FALSE]],
     success |-> FALSE, tmp |-> 0]
\* ToolRegistry.__init__: self.tools = {} (a dict as the set of its items;
\* an item is the tool, which carries its name)
EmptyTools == {}
\* no register() has been called yet
NoRegister == [n |-> 0, name |-> "", tool |-> 0, raised |-> FALSE]

\* a decision of the planner: need_tool and the plan (empty without tools)
Decision(nt, p) == [need_tool |-> nt, plan |-> p]
NoDecision == Decision(FALSE, <<>>)
\* plan() has not been called yet
NoPlanCall == [resps |-> <<>>, llm_calls |-> 0, returned |-> "none", decision |-> NoDecision]

\* no thread is inside run(), and nothing registered, planned or parsed yet
SideQuiet ==
    /\ threads = [t \in Threads |-> IdleThread]
    /\ last_register = NoRegister
    /\ last_plan = NoPlanCall
    /\ parse_log = <<>>

\* ... and a registry as its constructor leaves it
SideIdle == SideQuiet /\ tools = EmptyTools

\* the registry of an agent that executes: one tool under each of its names
RegistryItems == { [name |-> n, id |-> 1] : n \in Registry }

\* user_input as what the code tests on it: the keyword classes of
\* _is_task_completed (image, search) and of ExpertAgent (web_op: one of
\* web_operation_keywords, complex: one of complex_web_keywords)
Query(im, se, wo, cx) == [image |-> im, search |-> se, web_op |-> wo, complex |-> cx]
\* the query executed by ManusAgent in Spec: one that references imagery
ManusQueries == { Query(TRUE, FALSE, FALSE, FALSE) }
PlainQuery == Query(FALSE, FALSE, FALSE, FALSE)
ComplexQuery == Query(FALSE, FALSE, TRUE, TRUE)
\* the (expert, query) pairs executed by Spec
ExpertRuns == { <<"search_expert", PlainQuery>>, <<"document_expert", ComplexQuery>> }

\* the locals of execute() / execute_async() as they are before the loop
LoopInit ==
    /\ pc = "plan"
    /\ round_num = 0
    /\ tool_logs = <<>>
    /\ llm_thoughts = <<>>
    /\ plans = <<>>
    /\ first_plan = <<>>
    /\ final_answer = AnsEmpty
    /\ current_plan = <<>>
    /\ step_i = 1
    /\ current_tool_logs = <<>>
    /\ tools_executed = {}
    /\ round_success = TRUE
    /\ extracted_urls = <<>>
    /\ failed_tools = {}
    /\ tried_urls = {}
    /\ outcome = "running"
    /\ result = NoResult
    /\ plan_calls = 0
    /\ planned = 0
    /\ calls = <<>>
    /\ synth = "none"
    /\ ended_by = ""
    /\ no_dispatch_round = 0

Init ==
    /\ \/ impl = "manus" /\ self_name = "" /\ user_input \in ManusQueries
       \/ /\ impl = "expert"
          /\ \E r \in ExpertRuns : self_name = r[1] /\ user_input = r[2]
    /\ LoopInit
    /\ OrchIdle
    /\ SideQuiet
    /\ tools = RegistryItems

-----------------------------------------------------------------------------
(* ManusAgent.execute *)

\* plans the planner may answer with, within the bounds
PlansWithin(steps) ==
    { p \in SeqsUpTo(steps, MaxPlanLen) : planned + Len(p) <= MaxSteps }

\* the fallback decision of ManusAgent.plan
ManusFallbackPlan == << WellFormed("web_search", "q") >>

\* where the while loop goes after a round that did not break
AfterRound(r) == IF LoopCond(r, max_rounds) THEN "plan" ELSE "final"

\* the plan has no step that can be dispatched
NoDispatchable(plan) ==
    \A k \in 1..Len(plan) : plan[k].wellformed /\ plan[k].tool \notin Registry

\* need_tool = true with plan p: start the for loop of the round
StartRound(p) ==
    /\ current_plan' = p
    /\ step_i' = 1
    /\ current_tool_logs' = <<>>
    /\ tools_executed' = {}
    /\ round_success' = TRUE
    /\ planned' = planned + Len(p)
    /\ pc' = "dispatch"

\* a loop that takes the decision's final_answer and goes on planning
DirectAnswerPlansOn(a) ==
    /\ final_answer' = a
    /\ ended_by' = "direct"
    /\ pc' = "plan"
    /\ UNCHANGED <<current_plan, step_i, current_tool_logs, tools_executed,
                   round_success, planned, plans, first_plan>>

\* need_tool = false: take the decision's final_answer and leave the loop
DirectAnswer(a) ==
    /\ final_answer' = a
    /\ ended_by' = "direct"
    /\ pc' = "final"
    /\ UNCHANGED <<current_plan, step_i, current_tool_logs, tools_executed,
                   round_success, planned, plans, first_plan>>

\* One pass through the head of the while loop: round_num += 1 and
\* self.plan(...).  The LLM answers need_tool=false, a plan, something that
\* does not parse (plan() substitutes its fallback), or a JSON list
\* (plan_obj.get raises and the round is abandoned).
ManusPlanRound ==
    /\ impl = "manus" /\ pc = "plan"
    /\ LoopCond(round_num, max_rounds)
    /\ round_num' = round_num + 1
    /\ plan_calls' = plan_calls + 1
    /\ \/ \E a \in DirectAnswers :
            /\ DirectAnswer(a)
            /\ llm_thoughts' = Append(llm_thoughts, round_num')
       \/ \E p \in PlansWithin(ManusSteps) \cup {ManusFallbackPlan} :
            /\ StartRound(p)
            /\ plans' = plans \o p
            /\ first_plan' = IF round_num' = 1 THEN p ELSE first_plan
            /\ llm_thoughts' = Append(llm_thoughts, round_num')
            /\ UNCHANGED <<final_answer, ended_by>>
       \/ /\ pc' = AfterRound(round_num')
          /\ ended_by' = IF pc' = "final" THEN "budget" ELSE ended_by
          /\ UNCHANGED <<llm_thoughts, final_answer, current_plan, step_i,
                         current_tool_logs, tools_executed, round_success,
                         planned, plans, first_plan>>
    /\ UNCHANGED <<impl, self_name, user_input, tool_logs, extracted_urls,
                   failed_tools, tried_urls, outcome, result, calls, synth,
                   no_dispatch_round>>
    /\ UNCHANGED <<orchVars, sideVars>>

\* One iteration of `for i, step in enumerate(current_plan)`.
ManusDispatch ==
    /\ impl = "manus" /\ pc = "dispatch"
    /\ step_i <= Len(current_plan)
    /\ current_plan[step_i].wellformed
    /\ \E eff \in ManusStepEffects(current_plan[step_i]) :
         /\ current_tool_logs' = eff.ctl
         /\ round_success' = eff.rs
         /\ failed_tools' = eff.failed
         /\ tried_urls' = eff.tried
         /\ extracted_urls' = eff.extracted
         /\ tools_executed' = eff.texec
         /\ calls' = eff.calls
    /\ step_i' = step_i + 1
    /\ UNCHANGED <<impl, self_name, user_input, pc, round_num, tool_logs,
                   llm_thoughts, plans, first_plan, final_answer, current_plan, outcome,
                   result, plan_calls, planned, synth, ended_by, no_dispatch_round>>
    /\ UNCHANGED <<orchVars, sideVars>>

\* step.get(...) raises on a plan element that is not an object: the
\* handler of the round (except Exception: continue) abandons the round,
\* and with it the round's current_tool_logs.
ManusAbortRound ==
    /\ impl = "manus" /\ pc = "dispatch"
    /\ step_i <= Len(current_plan)
    /\ ~current_plan[step_i].wellformed
    /\ pc' = AfterRound(round_num)
    /\ ended_by' = IF pc' = "final" THEN "budget" ELSE ended_by
    /\ UNCHANGED <<impl, self_name, user_input, round_num, tool_logs,
                   llm_thoughts, plans, first_plan, final_answer, current_plan, step_i,
                   current_tool_logs, tools_executed, round_success,
                   extracted_urls, failed_tools, tried_urls, outcome, result,
                   plan_calls, planned, calls, synth, no_dispatch_round>>
    /\ UNCHANGED <<orchVars, sideVars>>

\* `if not tools_executed: break`
NoToolsExecuted(texec) == texec = {}

\* `if round_success and self._is_task_completed(user_input, tool_logs): break`
CompletedEarly(rs, logs) == rs /\ IsTaskCompleted(user_input, logs)

\* The end of the round's try block: tool_logs.extend(current_tool_logs) and
\* the two early exits.
ManusEndRound ==
    /\ impl = "manus" /\ pc = "dispatch"
    /\ step_i > Len(current_plan)
    /\ tool_logs' = tool_logs \o current_tool_logs
    /\ no_dispatch_round' = IF no_dispatch_round = 0 /\ NoDispatchable(current_plan)
                            THEN round_num ELSE no_dispatch_round
    /\ IF NoToolsExecuted(tools_executed)
       THEN pc' = "final" /\ ended_by' = "no_tools"
       ELSE IF CompletedEarly(round_success, tool_logs')
       THEN pc' = "final" /\ ended_by' = "completed"
       ELSE /\ pc' = AfterRound(round_num)
            /\ ended_by' = IF pc' = "final" THEN "budget" ELSE ended_by
    /\ UNCHANGED <<impl, self_name, user_input, round_num, llm_thoughts, plans, first_plan,
                   final_answer, current_plan, step_i, current_tool_logs,
                   tools_executed, round_success, extracted_urls, failed_tools,
                   tried_urls, outcome, result, plan_calls, planned, calls, synth>>
    /\ UNCHANGED <<orchVars, sideVars>>

\* what the LLM may answer to the summary prompt: a JSON object whose
\* final_answer is one of LlmAnswers, text that does not parse, or the call
\* raises
SynthResponses == LlmAnswers \cup {"unparseable", "raise"}

\* the dict execute() returns
ManusResult(a) ==
    [final_answer |-> a, plan |-> plans, tool_logs |-> tool_logs,
     llm_thoughts |-> llm_thoughts, final_thoughts |-> "final_thoughts",
     used_tools |-> (Len(tool_logs) > 0)]

\* The final-answer block after the loop: with a truthy final_answer it is
\* returned as it is; otherwise self.llm.invoke(summary_prompt) runs outside
\* any try, so its exception leaves execute(); an answer that does not
\* parse is replaced by the digest structured_results.
ManusFinal ==
    /\ impl = "manus" /\ pc = "final"
    /\ pc' = "done"
    /\ IF Truthy(final_answer)
       THEN /\ synth' = "skipped"
            /\ outcome' = "returned"
            /\ result' = ManusResult(final_answer)
            /\ UNCHANGED final_answer
       ELSE \E r \in SynthResponses :
            /\ synth' = IF r = "raise" THEN "llm_raised" ELSE "llm"
            /\ IF r = "raise"
               THEN /\ outcome' = "raised"
                    /\ UNCHANGED <<final_answer, result>>
               ELSE /\ final_answer' = IF r = "unparseable" THEN AnsDigest ELSE r
                    /\ outcome' = "returned"
                    /\ result' = ManusResult(final_answer')
    /\ UNCHANGED <<impl, self_name, user_input, round_num, tool_logs,
                   llm_thoughts, plans, first_plan, current_plan, step_i, current_tool_logs,
                   tools_executed, round_success, extracted_urls, failed_tools,
                   tried_urls, plan_calls, planned, calls, ended_by,
                   no_dispatch_round>>
    /\ UNCHANGED <<orchVars, sideVars>>

ManusNext ==
    \/ ManusPlanRound
    \/ ManusDispatch
    \/ ManusAbortRound
    \/ ManusEndRound
    \/ ManusFinal

-----------------------------------------------------------------------------
(* ExpertAgent.plan / execute_async / execute *)

\* the fallback decision of ExpertAgent.plan (the `except Exception` branch)
ExpertFallbackPlan ==
    IF self_name = "search_expert"
    THEN IF user_input.web_op
         THEN << WellFormed("web_search", "query=user_input"),
                 WellFormed("web_browser", BrowserInput) >>
         ELSE << WellFormed("web_search", "query=user_input") >>
    ELSE IF self_name = "document_expert"
    THEN << WellFormed("document_reader", "doc_id=user_input") >>
    ELSE << WellFormed("web_search", "query=user_input") >>

\* what ExpertAgent.plan returns for a parsed need_tool=true plan (its
\* steps already in the format the rewrites of plan() produce): a plan
\* element that is not an object raises inside plan()'s try
ExpertPlanOf(p) ==
    IF \A k \in 1..Len(p) : p[k].wellformed THEN p ELSE ExpertFallbackPlan

\* "action=" in tool_input
HasAction(inp) == inp \in {BrowserInput, BrowserInputBare}
\* "action=go_to_url" in tool_input (the quoted form does not contain it)
HasGoToUrl(inp) == inp = BrowserInputBare

\* already_executed: the scan of tool_logs for the same (tool, input)
AlreadyExecuted(t, inp) ==
    \E k \in 1..Len(tool_logs) :
        /\ tool_logs[k].tool = t
        /\ tool_logs[k].input = inp
        /\ IF t = "web_browser" /\ HasAction(inp)
           THEN HasGoToUrl(inp) /\ HasGoToUrl(tool_logs[k].input)
           ELSE TRUE

\* the dict execute_async() returns
ExpertResult(a) ==
    [final_answer |-> a, final_thoughts |-> "final_thoughts",
     llm_thoughts |-> llm_thoughts, plan |-> plans, tool_logs |-> tool_logs,
     expert_name |-> self_name, expert_description |-> <<"description", self_name>>]

\* the dict execute() returns from its `except Exception` branch
ExpertErrorResult ==
    [final_answer |-> AnsErrMsg, final_thoughts |-> "final_thoughts",
     llm_thoughts |-> <<>>, plan |-> <<>>, tool_logs |-> <<>>,
     expert_name |-> self_name, expert_description |-> <<"description", self_name>>]

\* execute(): an exception of execute_async is turned into the error dict
ExpertCaught ==
    /\ pc' = "done"
    /\ outcome' = "returned"
    /\ result' = ExpertErrorResult

\* One pass through the head of the while loop.  self.llm.invoke of plan()
\* is outside its try: an LLM exception leaves execute_async.
ExpertPlanRound ==
    /\ impl = "expert" /\ pc = "plan"
    /\ LoopCond(round_num, max_rounds)
    /\ round_num' = round_num + 1
    /\ plan_calls' = plan_calls + 1
    /\ \/ \E a \in DirectAnswers :
            /\ DirectAnswer(a)
            /\ llm_thoughts' = Append(llm_thoughts, round_num')
            /\ UNCHANGED <<outcome, result>>
       \/ \E p \in PlansWithin(ExpertSteps) \cup {ExpertFallbackPlan, <<BadStep>>} :
            /\ StartRound(ExpertPlanOf(p))
            /\ plans' = IF round_num' = 1 THEN plans \o ExpertPlanOf(p) ELSE plans
            /\ first_plan' = IF round_num' = 1 THEN ExpertPlanOf(p) ELSE first_plan
            /\ llm_thoughts' = Append(llm_thoughts, round_num')
            /\ UNCHANGED <<final_answer, ended_by, outcome, result>>
       \/ /\ ExpertCaught
          /\ UNCHANGED <<llm_thoughts, final_answer, current_plan, step_i,
                         current_tool_logs, tools_executed, round_success,
                         planned, plans, first_plan, ended_by>>
    /\ UNCHANGED <<impl, self_name, user_input, tool_logs, extracted_urls,
                   failed_tools, tried_urls, calls, synth, no_dispatch_round>>
    /\ UNCHANGED <<orchVars, sideVars>>

\* _execute_tool_safely: the tool's string, f"[Exception] {str(e)}" when it
\* raises, "[Error] 工具 X 没有 call 方法" when there is no call()
ExecuteToolSafely(o) ==
    IF o = RaiseMarked THEN OutExceptionMarked
    ELSE IF o = NoCallMethod THEN OutTextMarked
    ELSE OutputOf(o)
\* `if hasattr(tool, 'call')`
HasCall(o) == o # NoCallMethod
\* how the call ended
CallEnd(o) == IF o = RaiseMarked THEN "raise" ELSE o

\* One iteration of `for i, step in enumerate(current_plan)`.
ExpertDispatch ==
    /\ impl = "expert" /\ pc = "dispatch"
    /\ step_i <= Len(current_plan)
    /\ LET t == current_plan[step_i].tool
           inp == current_plan[step_i].input
       IN IF AlreadyExecuted(t, inp)
          THEN /\ current_tool_logs' = Append(current_tool_logs, Entry(1, t, inp, OutSkipped))
               /\ UNCHANGED calls
          ELSE IF t \notin Registry
          THEN /\ current_tool_logs' = Append(current_tool_logs, Entry(1, t, inp, OutNotFound))
               /\ UNCHANGED calls
          ELSE \E o \in ExpertToolOutcomes :
               /\ current_tool_logs' =
                      Append(current_tool_logs, Entry(1, t, inp, ExecuteToolSafely(o)))
               /\ calls' = IF HasCall(o)
                            THEN Append(calls, Call(t, inp, FALSE, CallEnd(o), TRUE))
                            ELSE calls
    /\ step_i' = step_i + 1
    /\ UNCHANGED <<impl, self_name, user_input, pc, round_num, tool_logs,
                   llm_thoughts, plans, first_plan, final_answer, current_plan,
                   tools_executed, round_success, extracted_urls, failed_tools,
                   tried_urls, outcome, result, plan_calls, planned, synth,
                   ended_by, no_dispatch_round>>
    /\ UNCHANGED <<orchVars, sideVars>>

\* the break after a round: enough log entries (and rounds, for a query
\* with one of complex_web_keywords)
EnoughInformation(n, r) ==
    IF user_input.complex
    THEN n >= EnoughLogsComplex /\ r >= EnoughRoundsComplex
    ELSE n >= EnoughLogs

\* The end of the round: tool_logs.extend(current_tool_logs) and the break.
ExpertEndRound ==
    /\ impl = "expert" /\ pc = "dispatch"
    /\ step_i > Len(current_plan)
    /\ tool_logs' = tool_logs \o current_tool_logs
    /\ no_dispatch_round' = IF no_dispatch_round = 0 /\ NoDispatchable(current_plan)
                            THEN round_num ELSE no_dispatch_round
    /\ IF EnoughInformation(Len(tool_logs'), round_num)
       THEN pc' = "final" /\ ended_by' = "enough_logs"
       ELSE /\ pc' = AfterRound(round_num)
            /\ ended_by' = IF pc' = "final" THEN "budget" ELSE ended_by
    /\ UNCHANGED <<impl, self_name, user_input, round_num, llm_thoughts, plans, first_plan,
                   final_answer, current_plan, step_i, current_tool_logs,
                   tools_executed, round_success, extracted_urls, failed_tools,
                   tried_urls, outcome, result, plan_calls, planned, calls, synth>>
    /\ UNCHANGED <<orchVars, sideVars>>

\* `"[跳过]" in output or "[Error]" in output`: the loop's own skip and
\* not-found outputs, and every tool output that holds a marker
HoldsMarker(out) ==
    out \in {OutSkipped, OutNotFound, OutTextMarked, OutExceptionMarked}

\* valid_logs: entries whose output holds neither the skip marker nor "[Error]"
IsValidLog(e) == ~HoldsMarker(e.output)

ValidLogs == SelectSeq(tool_logs, IsValidLog)

\* The final-answer block of execute_async and the return through
\* execute(): with no valid log the canned message is the answer; the
\* summary LLM call is outside any try of execute_async, so its exception
\* is caught only by execute().
ExpertFinal ==
    /\ impl = "expert" /\ pc = "final"
    /\ pc' = "done"
    /\ outcome' = "returned"
    /\ IF Truthy(final_answer)
       THEN /\ synth' = "skipped"
            /\ result' = ExpertResult(final_answer)
            /\ UNCHANGED final_answer
       ELSE IF ValidLogs = <<>>
       THEN /\ synth' = "canned"
            /\ final_answer' = AnsCanned
            /\ result' = ExpertResult(AnsCanned)
       ELSE \E r \in SynthResponses :
            /\ synth' = IF r = "raise" THEN "llm_raised" ELSE "llm"
            /\ IF r = "raise"
               THEN /\ result' = ExpertErrorResult
                    /\ UNCHANGED final_answer
               ELSE /\ final_answer' = IF r = "unparseable" THEN AnsDigest ELSE r
                    /\ result' = ExpertResult(final_answer')
    /\ UNCHANGED <<impl, self_name, user_input, round_num, tool_logs,
                   llm_thoughts, plans, first_plan, current_plan, step_i, current_tool_logs,
                   tools_executed, round_success, extracted_urls, failed_tools,
                   tried_urls, plan_calls, planned, calls, ended_by,
                   no_dispatch_round>>
    /\ UNCHANGED <<orchVars, sideVars>>

ExpertNext ==
    \/ ExpertPlanRound
    \/ ExpertDispatch
    \/ ExpertEndRound
    \/ ExpertFinal



Next == ManusNext \/ ExpertNext

Spec == Init /\ [][Next]_vars


-----------------------------------------------------------------------------
(* Properties of the two loops (Spec) *)

Done == pc = "done"

\* C1: in both loops the planner is invoked at most max_rounds times (once
\* per round), no round beyond max_rounds starts, the head of the loop is
\* reached only while a planning call is still due, the for loop stays
\* within the plan, and an execution that used up its rounds performs the
\* final-answer synthesis and, whenever the summary call answers, returns.
C1_BoundedRounds ==
    /\ round_num <= max_rounds
    /\ plan_calls <= max_rounds
    /\ plan_calls = round_num
    /\ pc \in {"plan", "dispatch", "final", "done"}
    /\ pc = "plan" => (round_num < max_rounds /\ ENABLED (ManusPlanRound \/ ExpertPlanRound))
    /\ pc = "dispatch" => step_i <= Len(current_plan) + 1
    /\ (Done /\ ended_by = "budget") =>
          /\ round_num = max_rounds
          /\ synth \in {"llm", "canned", "llm_raised"}
          /\ (synth # "llm_raised" => outcome = "returned")

\* every round of the budget planned a tool call and none of the calls succeeded
C1_Witness_Manus ==
    /\ impl = "manus" /\ Done /\ ended_by = "budget"
    /\ plan_calls = ManusMaxRounds
    /\ Len(tool_logs) = ManusMaxRounds
    /\ \A k \in 1..Len(tool_logs) : ~Succeeded(tool_logs[k].output)
    /\ \A k \in 1..Len(calls) : calls[k].out # "success"
    /\ Len(calls) = ManusMaxRounds
    /\ synth = "llm" /\ outcome = "returned"

\* C2: execute() of both loops always returns, and the final_answer of the
\* result is a string.
C2_ReturnsStringAnswer ==
    Done => (outcome = "returned" /\ IsString(result.final_answer))

\* C3: once a round whose plan had no dispatchable step has ended, no
\* further round starts.
C3_StopsAtNoDispatch ==
    no_dispatch_round # 0 => round_num = no_dispatch_round

\* C4: no web_download or web_screenshot call of ManusAgent.execute gets a
\* URL that was in tried_urls before the call.
C4_NoTriedUrlAgain ==
    impl = "manus" =>
        \A k \in 1..Len(calls) :
            calls[k].tool \in {"web_download", "web_screenshot"} => ~calls[k].pretried

\* the stubs of the download/screenshot scenario: web_download never
\* succeeds, web_screenshot always succeeds
StubsDownloadFailsScreenshotSucceeds(cs) ==
    \A k \in 1..Len(cs) :
        /\ cs[k].tool = "web_download" => cs[k].out # "success"
        /\ cs[k].tool = "web_screenshot" => cs[k].out = "success"

OnlyPageUrls(urls) ==
    urls # <<>> /\ \A k \in 1..Len(urls) : urls[k] \in PageUrls

\* logs holds a web_download entry that is not successful directly followed
\* by a successful web_screenshot entry
HasSubstitutionPair(logs) ==
    \E k \in 1..(Len(logs) - 1) :
        /\ logs[k].tool = "web_download" /\ ~Succeeded(logs[k].output)
        /\ logs[k + 1].tool = "web_screenshot" /\ Succeeded(logs[k + 1].output)

\* the for loop of the round is at a web_download step
AtDownloadStep ==
    /\ impl = "manus" /\ pc = "dispatch"
    /\ step_i <= Len(current_plan)
    /\ current_plan[step_i].wellformed
    /\ current_plan[step_i].tool = "web_download"

\* the round's plan has a web_download step and no web_search step after
\* it, so extracted_urls is what that step saw
DownloadStepSawUrls ==
    \E k \in 1..Len(current_plan) :
        /\ current_plan[k].tool = "web_download"
        /\ \A j \in k..Len(current_plan) : current_plan[j].tool # "web_search"

\* C5: with a web_download tool that never succeeds and a web_screenshot
\* tool that always succeeds, a round whose plan invokes web_download while
\* extracted_urls holds webpage URLs ends with a failed web_download entry
\* followed by a successful web_screenshot entry in its logs and with
\* round_success true.
C5_AsStated ==
    ( /\ impl = "manus" /\ pc = "dispatch"
      /\ step_i > Len(current_plan)
      /\ DownloadStepSawUrls
      /\ OnlyPageUrls(extracted_urls)
      /\ StubsDownloadFailsScreenshotSucceeds(calls) )
    => (HasSubstitutionPair(current_tool_logs) /\ round_success)

-----------------------------------------------------------------------------
(* MultiAgentOrchestrator (src/core/multi_agent.py) *)

\* run() calls made on one orchestrator
MaxRuns == 2
\* largest seeded value of a total counter in SpecSelect
MaxTotal == 7

\* select_expert_with_performance: total > 5
MinRuns == 5
\* select_expert_with_performance: success_rate < 0.3, as the fraction 3/10
LowRateNum == 3
LowRateDen == 10
\* _get_best_performing_expert: the score 0.5 of an expert without runs, as 1/2
DefaultScoreNum == 1
DefaultScoreDen == 2
\* _evaluate_result_quality: len(answer.strip()) < 10
MinAnswerLen == 10
\* _evaluate_result_quality: len(answer.strip()) > 30
LongAnswerLen == 30

\* A query as what selection tests on it: whether it is a string at all
\* (query.lower() raises on anything else), whether it holds one of
\* japan_travel_keywords (case-insensitive), one of search_keywords, one of
\* doc_keywords.
OrchQuery(st, jp, sk, dk) == [isstr |-> st, japan |-> jp, search_kw |-> sk, doc_kw |-> dk]
OrchQueries ==
    { OrchQuery(FALSE, FALSE, FALSE, FALSE), OrchQuery(TRUE, TRUE, FALSE, FALSE),
      OrchQuery(TRUE, FALSE, TRUE, TRUE), OrchQuery(TRUE, FALSE, FALSE, TRUE),
      OrchQuery(TRUE, FALSE, FALSE, FALSE) }

\* what self.llm.invoke(prompt).content.strip() gives in select_expert_llm:
\* an expert name, some other text, or the call raises
LlmSelections == {"search_expert", "document_expert", "invalid", "raise"}

\* A final_answer as what _evaluate_result_quality tests on it: kind "str",
\* "none" (None) or "other" (a truthy value that is not a string); slen is
\* len(answer.strip()); neg / pos say that it holds one of
\* negative_indicators / useful_indicators.  by names who produced it.
Answer(by, kind, slen, neg, pos) ==
    [by |-> by, kind |-> kind, slen |-> slen, neg |-> neg, pos |-> pos]

\* the answers an expert may give
AnswersBy(by) ==
    { Answer(by, "none", 0, FALSE, FALSE),
      Answer(by, "other", 0, FALSE, FALSE),
      Answer(by, "str", 0, FALSE, FALSE),
      Answer(by, "str", MinAnswerLen - 1, FALSE, TRUE),
      Answer(by, "str", MinAnswerLen, FALSE, TRUE),
      Answer(by, "str", MinAnswerLen, TRUE, TRUE),
      Answer(by, "str", LongAnswerLen, FALSE, FALSE),
      Answer(by, "str", LongAnswerLen + 1, FALSE, FALSE),
      Answer(by, "str", LongAnswerLen + 1, TRUE, FALSE) }

\* "处理超时（5分钟），请简化问题或稍后重试"
TimeoutAnswer == Answer("timeout_message", "str", 20, FALSE, FALSE)
NoAnswer == Answer("nobody", "none", 0, FALSE, FALSE)

\* str(e) of the exception that ends a run(), as what the error record
\* shows of it: mlen is its length without trailing whitespace, neg / pos
\* say that it holds one of negative_indicators / useful_indicators
Message(mlen, neg, pos) == [mlen |-> mlen, neg |-> neg, pos |-> pos]
\* no exception was raised
NoMessage == Message(0, FALSE, FALSE)

\* len("系统执行异常: "), and the same without its trailing blank
ErrorPrefixLen == 8
ErrorPrefixStripped == 7
\* len("'' object has no attribute 'lower'"): the AttributeError of
\* query.lower() and of answer.strip() without the name of the type
AttrErrorTextLen == 34
\* len(type(x).__name__) of the value that is not a string: int, list, ...
TypeNameLens == {3, 4}

\* "'int' object has no attribute 'lower'"
AttrErrorMessage(n) == Message(AttrErrorTextLen + n, FALSE, FALSE)
AttrErrorMessages == { AttrErrorMessage(n) : n \in TypeNameLens }

\* what an expert may raise: an exception without a message,
\* RuntimeError("boom"), ValueError("参数错误") (which holds "错误")
RaisedMessages ==
    { Message(0, FALSE, FALSE), Message(4, FALSE, FALSE), Message(4, TRUE, FALSE) }

\* f"系统执行异常: {str(e)}": strip() removes the blank of the prefix only
\* when the message is empty
ErrorAnswer(msg) ==
    Answer("error_message", "str",
           IF msg.mlen = 0 THEN ErrorPrefixStripped ELSE ErrorPrefixLen + msg.mlen,
           msg.neg, msg.pos)

\* the str(e) of the AttributeError that answer.strip() raises on this answer
StripMessages(a) == IF a.kind = "other" THEN AttrErrorMessages ELSE {NoMessage}

\* how executing the selected expert ends: execute_async raises (msg is
\* the str of the exception), wait_for times out, or it returns a dict with
\* this final_answer (msg is what the evaluation of the answer raises)
ExpertOutcomes ==
    { [ended |-> "raise", answer |-> NoAnswer, msg |-> m] : m \in RaisedMessages }
    \cup { [ended |-> "timeout", answer |-> NoAnswer, msg |-> NoMessage] }
    \cup UNION { { [ended |-> "result", answer |-> a, msg |-> m] : m \in StripMessages(a) } :
                 a \in AnswersBy("primary") }

\* expert.description
DescriptionOf(e) == <<"description", e>>

\* _select_expert_fallback
SelectExpertFallback(q) ==
    IF q.search_kw THEN "search_expert"
    ELSE IF q.doc_kw THEN "document_expert"
    ELSE "general_expert"

\* select_expert_llm, for a string query
SelectExpertLlm(q, resp) ==
    IF q.japan THEN "search_expert"
    ELSE IF resp \in ExpertNames THEN resp
    ELSE SelectExpertFallback(q)

\* the score of _get_best_performing_expert as a fraction <<num, den>>
Score(perf) ==
    IF perf.total > 0 THEN <<perf.success, perf.total>>
    ELSE <<DefaultScoreNum, DefaultScoreDen>>

\* a > b on fractions with positive denominators
Greater(a, b) == a[1] * b[2] > b[1] * a[2]

RECURSIVE LastMax(_, _, _)
\* a maximum that keeps the last element among those with the largest score
LastMax(perf, k, best) ==
    IF k > Len(ExpertOrder) THEN best
    ELSE LastMax(perf, k + 1,
                 IF Greater(Score(perf[best]), Score(perf[ExpertOrder[k]]))
                 THEN best ELSE ExpertOrder[k])

RECURSIVE FirstMax(_, _, _)
\* max(scores, key=...): the first element among those with the largest score
FirstMax(perf, k, best) ==
    IF k > Len(ExpertOrder) THEN best
    ELSE FirstMax(perf, k + 1,
                  IF Greater(Score(perf[ExpertOrder[k]]), Score(perf[best]))
                  THEN ExpertOrder[k] ELSE best)

\* a best-performing expert that is not one of self.experts
GetBestPerformingExpertUnregistered(perf) == "best_expert"

\* _get_best_performing_expert
GetBestPerformingExpert(perf) == FirstMax(perf, 2, ExpertOrder[1])

\* the test of the primary choice with total >= 5 in place of total > 5
LowPerformerFromFive(p) ==
    /\ p.total >= MinRuns
    /\ p.success * LowRateDen < LowRateNum * p.total
\* select_expert_with_performance: total > 5 and success / total < 0.3
LowPerformer(p) ==
    /\ p.total > MinRuns
    /\ p.success * LowRateDen < LowRateNum * p.total

\* select_expert_with_performance / select_expert, given the primary choice
SelectExpertWithPerformance(llm_choice, perf) ==
    IF LowPerformer(perf[llm_choice])
    THEN LET best_expert == GetBestPerformingExpert(perf)
         IN IF best_expert # llm_choice THEN best_expert ELSE llm_choice
    ELSE llm_choice

\* _evaluate_result_quality raises: answer.strip() on a value that is not a string
QualityRaises(a) == a.kind = "other"

\* an evaluation that looks for useful_indicators before negative_indicators
EvaluateResultQualityPositiveFirst(a) ==
    IF a.kind = "none" \/ a.slen = 0 \/ a.slen < MinAnswerLen THEN FALSE
    ELSE IF a.pos THEN TRUE
    ELSE IF a.neg THEN FALSE
    ELSE a.slen > LongAnswerLen

\* _evaluate_result_quality
EvaluateResultQuality(a) ==
    IF a.kind = "none" \/ a.slen = 0 \/ a.slen < MinAnswerLen THEN FALSE
    ELSE IF a.neg THEN FALSE
    ELSE IF a.pos THEN TRUE
    ELSE a.slen > LongAnswerLen

\* update_expert_performance: the counters after the update; a name that
\* is not a key of expert_performance changes nothing
UpdatedPerformance(perf, e, success) ==
    IF e \in DOMAIN perf
    THEN [perf EXCEPT ![e] = [success |-> IF success THEN @.success + 1 ELSE @.success,
                              total |-> @.total + 1]]
    ELSE perf

\* update_expert_performance: the history after the update (the constant
\* timestamp field of an entry is left out).  The append is inside the same
\* `if expert_name in self.expert_performance`, whose keys are the names
\* given to the experts in __init__ and never change.
UpdatedHistory(hist, e, success) ==
    IF e \in ExpertNames
    THEN Append(hist, [expert |-> e, success |-> success])
    ELSE hist

\* the record run() builds from an expert's result dict (src: whose dict)
FullResult(a, name, src, success, stats) ==
    [final_answer |-> a, expert_name |-> name,
     expert_description |-> DescriptionOf(name),
     llm_thoughts |-> <<src, "llm_thoughts">>, tool_logs |-> <<src, "tool_logs">>,
     plan |-> <<src, "plan">>, success_evaluation |-> success,
     performance_stats |-> stats]

\* the timeout record without its plan key
TimeoutResultNoPlan(name, stats) ==
    [final_answer |-> TimeoutAnswer, expert_name |-> name,
     expert_description |-> DescriptionOf(name),
     llm_thoughts |-> <<"run", "timeout">>, tool_logs |-> <<"run", "empty">>,
     success_evaluation |-> FALSE, performance_stats |-> stats, timeout |-> TRUE]
\* the record returned from `except asyncio.TimeoutError`
TimeoutResult(name, stats) ==
    [final_answer |-> TimeoutAnswer, expert_name |-> name,
     expert_description |-> DescriptionOf(name),
     llm_thoughts |-> <<"run", "timeout">>, tool_logs |-> <<"run", "empty">>,
     plan |-> <<"run", "empty">>, success_evaluation |-> FALSE,
     performance_stats |-> stats, timeout |-> TRUE]

\* the record returned from the outer `except Exception` for str(e) = msg
ErrorResult(msg) ==
    [final_answer |-> ErrorAnswer(msg), expert_name |-> "unknown",
     expert_description |-> DescriptionOf("unknown"),
     llm_thoughts |-> <<"run", "exception", msg>>, tool_logs |-> <<"run", "empty">>,
     plan |-> <<"run", "empty">>, success_evaluation |-> FALSE,
     performance_stats |-> [success |-> 0, total |-> 0], error |-> TRUE]

\* the record that replaces full_result when the backup's answer passes
BackupResult(a, stats) ==
    FullResult(a, "search_expert", "backup", TRUE, stats) @@ ("backup_used" :> TRUE)

\* the backup is tried whatever expert was selected
TryBackupAnyExpert(success, name) == ~success
\* `if not success and expert_name != "search_expert"`
TryBackup(success, name) == ~success /\ name # "search_expert"

\* the backup's record is taken whatever its verdict
BackupSubstitutesAlways(backup_success) == TRUE
\* `if backup_success`
BackupSubstitutes(backup_success) == backup_success

\* the body of run() without the selection
GuardedStagesAfterSelect == {"expert", "quality", "backup"}
\* the stages of run() that lie inside its outer try (all of its body)
GuardedStages == {"select", "expert", "quality", "backup"}

Verdict(b) == IF b THEN "true" ELSE "false"

\* what a run() call leaves behind: the path it took and the record it
\* returned.  exc_stage names the stage that raised, escaped says the
\* exception reached the caller.
Trace(q, primary, chosen, ex, stage, exc_stage, v1, bcalls, bk, v2, rec) ==
    [stage |-> stage, query |-> q, primary |-> primary, chosen |-> chosen,
     ended |-> ex.ended, expert_answer |-> ex.answer, raised |-> ex.msg,
     exc_stage |-> exc_stage,
     escaped |-> (stage = "error" /\ exc_stage \notin GuardedStages),
     first_verdict |-> v1, backup_calls |-> bcalls, backup_answer |-> bk,
     backup_verdict |-> v2,
     rec |-> IF stage = "error" /\ exc_stage \notin GuardedStages THEN <<>> ELSE rec]

\* the inner try of the backup: process() of search_expert, the verdict on
\* its answer (an exception of the evaluation is swallowed), the substitution
BackupStage(q, primary, name, ex, bk, full, perf) ==
    IF QualityRaises(bk)
    THEN Trace(q, primary, name, ex, "normal", "backup", "false", 1, bk, "raised", full)
    ELSE LET backup_success == EvaluateResultQuality(bk) IN
         IF BackupSubstitutes(backup_success)
         THEN Trace(q, primary, name, ex, "backup", "none", "false", 1, bk,
                    Verdict(backup_success),
                    BackupResult(bk, perf["search_expert"]))
         ELSE Trace(q, primary, name, ex, "normal", "none", "false", 1, bk,
                    Verdict(backup_success), full)

\* a run() whose exception handler records a failure of the chosen expert
FailedRecordsFailure(q, primary, chosen, ex, exc_stage, perf, hist) ==
    [trace |-> Trace(q, primary, chosen, ex, "error", exc_stage, "none", 0, NoAnswer,
                     "none", ErrorResult(ex.msg)),
     perf |-> IF chosen \in ExpertNames THEN UpdatedPerformance(perf, chosen, FALSE)
              ELSE perf,
     hist |-> IF chosen \in ExpertNames THEN UpdatedHistory(hist, chosen, FALSE)
              ELSE hist]

\* a run() that ended in the outer `except Exception` (or, were the stage
\* not guarded, in the caller)
Failed(q, primary, chosen, ex, exc_stage, perf, hist) ==
    [trace |-> Trace(q, primary, chosen, ex, "error", exc_stage, "none", 0, NoAnswer,
                     "none", ErrorResult(ex.msg)),
     perf |-> perf, hist |-> hist]

\* the counters and the history after a run() whose expert was recorded as
\* a failure
OnTimeoutRecordsFailure(perf, hist, name) ==
    [perf |-> UpdatedPerformance(perf, name, FALSE),
     hist |-> UpdatedHistory(hist, name, FALSE)]

\* `except asyncio.TimeoutError` of run(): the handler builds the record
\* and returns; update_expert_performance is not reached
OnTimeout(perf, hist, name) == [perf |-> perf, hist |-> hist]

\* The inputs a run() consumes: the LLM is asked only about a string query
\* without a japan keyword, an expert is executed only once one is
\* selected, the backup answers only when the backup is run.
LlmSelectionsFor(q) ==
    IF q.isstr /\ ~q.japan THEN LlmSelections ELSE {"not asked"}
ExpertOutcomesFor(q) ==
    IF q.isstr THEN ExpertOutcomes
    ELSE { [ended |-> "not run", answer |-> NoAnswer, msg |-> m] : m \in AttrErrorMessages }
\* the loops are not executing
LoopsIdle == impl = "none" /\ self_name = "" /\ user_input = PlainQuery /\ LoopInit

-----------------------------------------------------------------------------
(* select_expert on an orchestrator that has recorded runs (SpecSelect) *)

Counters == { [success |-> k, total |-> t] : k \in 0..MaxTotal, t \in 0..MaxTotal }

RECURSIVE Repeat(_, _)
Repeat(x, n) == IF n = 0 THEN <<>> ELSE <<x>> \o Repeat(x, n - 1)

\* a history update_expert_performance leaves behind for the counters c of expert e
HistoryOf(e, c) ==
    Repeat([expert |-> e, success |-> TRUE], c.success)
    \o Repeat([expert |-> e, success |-> FALSE], c.total - c.success)

\* an orchestrator after some recorded runs: success <= total <= MaxTotal
InitSelect ==
    /\ LoopsIdle
    /\ expert_performance \in [ExpertNames -> Counters]
    /\ \A e \in ExpertNames : expert_performance[e].success <= expert_performance[e].total
    /\ selection_history = HistoryOf(ExpertOrder[1], expert_performance[ExpertOrder[1]])
                           \o HistoryOf(ExpertOrder[2], expert_performance[ExpertOrder[2]])
                           \o HistoryOf(ExpertOrder[3], expert_performance[ExpertOrder[3]])
    /\ run_count = 0
    /\ last_run = NoRun
    /\ selected = NoSelection
    /\ SideIdle

\* One call of select_expert(query) with a string query.  resp is what the
\* LLM answers to the classification prompt for this query; select_expert_llm
\* consumes it only when it reaches self.llm.invoke.
SelectExpert ==
    /\ impl = "none"
    /\ selected = NoSelection
    /\ \E q \in OrchQueries :
       \E resp \in LlmSelections :
         /\ q.isstr
         /\ LET llm_choice == SelectExpertLlm(q, resp) IN
            selected' = [query |-> q, llm |-> resp, primary |-> llm_choice,
                         chosen |-> SelectExpertWithPerformance(llm_choice, expert_performance)]
    /\ UNCHANGED <<expert_performance, selection_history, run_count, last_run>>
    /\ UNCHANGED <<loopVars, sideVars>>

NextSelect == SelectExpert

SpecSelect == InitSelect /\ [][NextSelect]_vars

-----------------------------------------------------------------------------
(* MultiAgentOrchestrator.run as the sessions of app.py call it (SpecOrch) *)
(* app.py keeps one ManusCore, and with it one orchestrator, for all       *)
(* sessions (st.cache_resource), and run() takes no lock.  A call reads    *)
(* the counters in select_expert, waits for the expert, updates the        *)
(* counters and the history, and may wait again for the backup; other      *)
(* calls run while it waits.  In update_expert_performance `d[k] += 1` is  *)
(* a load of d[k], an addition on the thread's own stack and a store to    *)
(* d[k]: the load and the store are separate steps.                        *)

\* thread t moves to position p with tmp holding v
At(t, p, v) == [threads EXCEPT ![t].pc = p, ![t].tmp = v]

\* thread t returns from run()
Leave(t) == [threads EXCEPT ![t] = IdleThread]

\* no other thread is inside run()
Alone(t) == \A u \in Threads \ {t} : threads[u].pc = "idle"

\* the counters the calls start from: those of a new orchestrator, and
\* those after MinRuns recorded runs of document_expert of which one passed
\* (one more failure makes select_expert leave it)
OrchSeeds ==
    { [e \in ExpertNames |-> [success |-> 0, total |-> 0]],
      [e \in ExpertNames |-> IF e = "document_expert"
                              THEN [success |-> 1, total |-> MinRuns]
                              ELSE [success |-> 0, total |-> 0]] }

\* full_result of the selected expert as the caller receives it:
\* performance_stats is the dict of the counters itself, so it shows the
\* counters as they are when the record is handed over
FullResultOf(t) ==
    FullResult(threads[t].ex.answer, threads[t].expert, "primary", threads[t].success,
               expert_performance[threads[t].expert])

\* run() from its entry to the wait for the expert: select_expert reads the
\* counters as they are now (line 194).  A query that is not a string makes
\* the selection raise, and the call returns the error record at once.
BeginRun(t) ==
    /\ impl = "none"
    /\ threads[t].pc = "idle"
    /\ run_count < MaxRuns
    /\ \E q \in OrchQueries :
       \E resp \in LlmSelectionsFor(q) :
         IF ~q.isstr
         THEN \E ex \in ExpertOutcomesFor(q) :
              \E r \in { Failed(q, "", "", ex, "select",
                                expert_performance, selection_history) } :
                /\ expert_performance' = r.perf
                /\ selection_history' = r.hist
                /\ last_run' = r.trace
                /\ selected' = [query |-> q, llm |-> resp, primary |-> "", chosen |-> ""]
                /\ UNCHANGED threads
         ELSE LET primary == SelectExpertLlm(q, resp)
                  name == SelectExpertWithPerformance(primary, expert_performance)
              IN /\ threads' = [threads EXCEPT ![t] =
                                   [IdleThread EXCEPT !.pc = "executing", !.query = q,
                                                      !.primary = primary, !.expert = name]]
                 /\ selected' = [query |-> q, llm |-> resp,
                                  primary |-> primary, chosen |-> name]
                 /\ UNCHANGED <<expert_performance, selection_history, last_run>>
    /\ run_count' = run_count + 1
    /\ UNCHANGED <<loopVars, tools, last_register, last_plan, parse_log>>

\* The wait for the expert ends (lines 201-226): wait_for times out,
\* execute_async raises, or it returns a dict whose final_answer is
\* evaluated.  The timeout and the error path return their record; on a
\* verdict the call enters update_expert_performance.
ExpertReturns(t) ==
    /\ impl = "none"
    /\ threads[t].pc = "executing"
    /\ LET q == threads[t].query
           primary == threads[t].primary
           name == threads[t].expert
       IN \E ex \in ExpertOutcomes :
          IF ex.ended = "timeout"
          THEN /\ last_run' = Trace(q, primary, name, ex, "timeout", "none", "none", 0,
                                    NoAnswer, "none",
                                    TimeoutResult(name, expert_performance[name]))
               /\ expert_performance' =
                      OnTimeout(expert_performance, selection_history, name).perf
               /\ selection_history' =
                      OnTimeout(expert_performance, selection_history, name).hist
               /\ threads' = Leave(t)
          ELSE IF ex.ended = "raise" \/ QualityRaises(ex.answer)
          THEN \E r \in { Failed(q, primary, name, ex,
                                 IF ex.ended = "raise" THEN "expert" ELSE "quality",
                                 expert_performance, selection_history) } :
                /\ last_run' = r.trace
                /\ expert_performance' = r.perf
                /\ selection_history' = r.hist
                /\ threads' = Leave(t)
          ELSE /\ threads' = [threads EXCEPT ![t].pc = "load_total", ![t].ex = ex,
                                             ![t].success = EvaluateResultQuality(ex.answer)]
               /\ UNCHANGED <<expert_performance, selection_history, last_run>>
    /\ UNCHANGED <<run_count, selected>>
    /\ UNCHANGED <<loopVars, tools, last_register, last_plan, parse_log>>

\* self.expert_performance[expert_name]["total"] += 1: the load
LoadTotal(t) ==
    /\ impl = "none"
    /\ threads[t].pc = "load_total"
    /\ threads' = At(t, "store_total", expert_performance[threads[t].expert].total)
    /\ UNCHANGED <<expert_performance, selection_history, run_count, last_run, selected>>
    /\ UNCHANGED <<loopVars, tools, last_register, last_plan, parse_log>>

\* a `+= 1` that stores the value it loaded
StoredTotalKept(v) == v
\* the value `+= 1` stores for the loaded value v
StoredTotal(v) == v + 1

\* self.expert_performance[expert_name]["total"] += 1: the store
StoreTotal(t) ==
    /\ impl = "none"
    /\ threads[t].pc = "store_total"
    /\ expert_performance' =
          [expert_performance EXCEPT ![threads[t].expert].total = StoredTotal(threads[t].tmp)]
    /\ threads' = At(t, IF threads[t].success THEN "load_success" ELSE "append", 0)
    /\ UNCHANGED <<selection_history, run_count, last_run, selected>>
    /\ UNCHANGED <<loopVars, tools, last_register, last_plan, parse_log>>

\* self.expert_performance[expert_name]["success"] += 1: the load
LoadSuccess(t) ==
    /\ impl = "none"
    /\ threads[t].pc = "load_success"
    /\ threads' = At(t, "store_success", expert_performance[threads[t].expert].success)
    /\ UNCHANGED <<expert_performance, selection_history, run_count, last_run, selected>>
    /\ UNCHANGED <<loopVars, tools, last_register, last_plan, parse_log>>

\* self.expert_performance[expert_name]["success"] += 1: the store
StoreSuccess(t) ==
    /\ impl = "none"
    /\ threads[t].pc = "store_success"
    /\ expert_performance' =
          [expert_performance EXCEPT ![threads[t].expert].success = threads[t].tmp + 1]
    /\ threads' = At(t, "append", 0)
    /\ UNCHANGED <<selection_history, run_count, last_run, selected>>
    /\ UNCHANGED <<loopVars, tools, last_register, last_plan, parse_log>>

\* self.selection_history.append(...) (list.append is one step) and run()
\* up to its next wait: full_result is built, and either the backup is
\* started (line 247) or the record is returned
AppendHistory(t) ==
    /\ impl = "none"
    /\ threads[t].pc = "append"
    /\ selection_history' =
          UpdatedHistory(selection_history, threads[t].expert, threads[t].success)
    /\ IF TryBackup(threads[t].success, threads[t].expert)
       THEN /\ threads' = At(t, "backup", 0)
            /\ UNCHANGED last_run
       ELSE /\ last_run' = Trace(threads[t].query, threads[t].primary, threads[t].expert,
                                 threads[t].ex, "normal", "none",
                                 Verdict(threads[t].success), 0, NoAnswer, "none",
                                 FullResultOf(t))
            /\ threads' = Leave(t)
    /\ UNCHANGED <<expert_performance, run_count, selected>>
    /\ UNCHANGED <<loopVars, tools, last_register, last_plan, parse_log>>

\* The wait for the backup ends (lines 247-264): process() of search_expert
\* has answered, the answer is evaluated, and run() returns its record.
BackupReturns(t) ==
    /\ impl = "none"
    /\ threads[t].pc = "backup"
    /\ \E bk \in AnswersBy("backup") :
         last_run' = BackupStage(threads[t].query, threads[t].primary, threads[t].expert,
                                 threads[t].ex, bk, FullResultOf(t), expert_performance)
    /\ threads' = Leave(t)
    /\ UNCHANGED <<expert_performance, selection_history, run_count, selected>>
    /\ UNCHANGED <<loopVars, tools, last_register, last_plan, parse_log>>

\* an orchestrator that is new or has recorded runs, and no call in flight
InitOrch ==
    /\ LoopsIdle
    /\ expert_performance \in OrchSeeds
    /\ selection_history =
           HistoryOf("document_expert", expert_performance["document_expert"])
    /\ run_count = 0
    /\ last_run = NoRun
    /\ selected = NoSelection
    /\ SideIdle

\* calls that may overlap
NextOrch ==
    \E t \in Threads :
        \/ BeginRun(t)
        \/ ExpertReturns(t)
        \/ LoadTotal(t)
        \/ StoreTotal(t)
        \/ LoadSuccess(t)
        \/ StoreSuccess(t)
        \/ AppendHistory(t)
        \/ BackupReturns(t)

SpecOrch == InitOrch /\ [][NextOrch]_vars

\* a call is started only when no other call is inside run()
BeginRunAlone(t) == Alone(t) /\ BeginRun(t)

\* calls that come one after the other
NextSeq ==
    \E t \in Threads :
        \/ BeginRunAlone(t)
        \/ ExpertReturns(t)
        \/ LoadTotal(t)
        \/ StoreTotal(t)
        \/ LoadSuccess(t)
        \/ StoreSuccess(t)
        \/ AppendHistory(t)
        \/ BackupReturns(t)

SpecSeq == InitOrch /\ [][NextSeq]_vars

-----------------------------------------------------------------------------
(* ToolRegistry.register (SpecRegistry) *)

\* the tool objects handed to register(): name is tool.name, id tells two
\* objects of the same name apart
ToolObjects == { [name |-> n, id |-> i] : n \in ExpertTools, i \in 1..MaxSameName }

\* tool.name in self.tools
Registered(reg, name) == \E x \in reg : x.name = name

\* a register() that stores the tool under its name whatever is there
RegisterOverwrites(reg, tool) ==
    [tools |-> { x \in reg : x.name # tool.name } \cup {tool}, raised |-> FALSE]

\* register(tool): ValueError when the name is taken, else
\* self.tools[tool.name] = tool
Register(reg, tool) ==
    IF Registered(reg, tool.name)
    THEN [tools |-> reg, raised |-> TRUE]
    ELSE [tools |-> reg \cup {tool}, raised |-> FALSE]

\* One call of ToolRegistry.register.
RegisterTool ==
    /\ impl = "none"
    /\ last_register.n < MaxRegisters
    /\ \E tool \in ToolObjects :
       \E r \in { Register(tools, tool) } :
         /\ tools' = r.tools
         /\ last_register' = [n |-> last_register.n + 1, name |-> tool.name,
                              tool |-> tool.id, raised |-> r.raised]
    /\ UNCHANGED <<loopVars, orchVars, threads, last_plan, parse_log>>

InitRegistry == LoopsIdle /\ OrchIdle /\ SideIdle

NextRegistry == RegisterTool

SpecRegistry == InitRegistry /\ [][NextRegistry]_vars

-----------------------------------------------------------------------------
(* ManusAgent.plan and ExpertAgent.plan as functions of the LLM's answers  *)
(* (SpecPlan).  self_name is "" for ManusAgent.                            *)

\* what the LLM does on one invocation with the planning prompt: a JSON
\* object (a decision), a JSON list, text that does not parse, an exception
PlanResponses == {"decision", "list", "unparseable", "raise"}

\* the answers the LLM would give to successive invocations
ResponseSeqs == [1..PlanMaxRetries -> PlanResponses]

\* what plan() did: LLM invocations made, how it ended, the decision returned
Planned(n, how, d) == [llm_calls |-> n, returned |-> how, decision |-> d]

\* ManusAgent.plan: invoke and parse are inside one try whose handler
\* returns the fallback decision, so no exception reaches error_handler and
\* its second attempt is never made; a JSON list is returned as parsed
ManusPlan(resps, d) ==
    IF resps[1] = "decision" THEN Planned(1, "decision", d)
    ELSE IF resps[1] = "list" THEN Planned(1, "list", NoDecision)
    ELSE Planned(1, "fallback", Decision(TRUE, ManusFallbackPlan))

\* ExpertAgent.plan (not decorated): self.llm.invoke is outside the try;
\* parsed.get on a list and step.get on a non-object raise inside it
ExpertPlan(resps, d) ==
    IF resps[1] = "raise" THEN Planned(1, "raised", NoDecision)
    ELSE IF resps[1] = "decision" /\ (d.need_tool => ExpertPlanOf(d.plan) = d.plan)
    THEN Planned(1, "decision", d)
    ELSE Planned(1, "fallback", Decision(TRUE, ExpertFallbackPlan))

\* the decisions a parsed JSON object may hold
DecisionsOver(steps) ==
    {NoDecision} \cup { Decision(TRUE, p) : p \in PlansWithin(steps) }

\* the queries plan() is called with
PlanQueries == {PlainQuery, ComplexQuery}

\* One call of plan().
PlanCall ==
    /\ impl = "none"
    /\ last_plan = NoPlanCall
    /\ \E resps \in ResponseSeqs :
         \/ /\ self_name = ""
            /\ \E d \in DecisionsOver(ManusSteps) :
                 last_plan' = [resps |-> resps] @@ ManusPlan(resps, d)
         \/ /\ self_name \in ExpertNames
            /\ \E d \in DecisionsOver(ExpertSteps \cup {BadStep}) :
                 last_plan' = [resps |-> resps] @@ ExpertPlan(resps, d)
    /\ UNCHANGED <<loopVars, orchVars, threads, tools, last_register, parse_log>>

InitPlan ==
    /\ impl = "none"
    /\ self_name \in ExpertNames \cup {""}
    /\ user_input \in PlanQueries
    /\ LoopInit
    /\ OrchIdle
    /\ SideIdle

NextPlan == PlanCall

SpecPlan == InitPlan /\ [][NextPlan]_vars

-----------------------------------------------------------------------------
(* ManusAgent._parse_tool_result called again and again, on an agent whose *)
(* registry takes registrations between the calls (SpecParse): the agent   *)
(* holds the registry of the core (core.py:41-42), and register_tool       *)
(* (core.py:34-36) may be called on it at any time.                        *)

\* the raw strings handed to _parse_tool_result: what a tool returned and
\* the strings the loop writes into a log entry
RawOutputs ==
    ToolReturns \cup {OutException, OutNotFound, OutInfo, OutOtherStatus, OutNoStatus}

\* One call of self._parse_tool_result(raw); the entry keeps the registry
\* self held at the call.
ParseCall ==
    /\ impl = "none"
    /\ Len(parse_log) < MaxParses
    /\ \E raw \in RawOutputs :
         parse_log' = Append(parse_log, [raw |-> raw, registry |-> tools,
                                         outcome |-> ParseToolResult(Self, raw)])
    /\ UNCHANGED <<loopVars, orchVars, threads, tools, last_register, last_plan>>

InitParse == LoopsIdle /\ OrchIdle /\ SideIdle

NextParse == ParseCall \/ RegisterTool

SpecParse == InitParse /\ [][NextParse]_vars

-----------------------------------------------------------------------------
(* Properties of MultiAgentOrchestrator (SpecOrch, SpecSelect) *)

Ran == last_run.stage # "idle"

\* the selected expert returned an answer and the answer failed the evaluation
FirstAnswerFailed ==
    /\ last_run.ended = "result"
    /\ ~QualityRaises(last_run.expert_answer)
    /\ ~EvaluateResultQuality(last_run.expert_answer)

\* the answer a passes _evaluate_result_quality
Passes(a) == ~QualityRaises(a) /\ EvaluateResultQuality(a)

\* C6: when the selected expert is not search_expert and its answer fails
\* the evaluation, the returned record carries search_expert's answer and
\* name with backup_used true if that answer passes, and is the selected
\* expert's record without backup_used if it does not.
C6_BackupSubstitution ==
    (Ran /\ FirstAnswerFailed /\ last_run.chosen # "search_expert") =>
        IF Passes(last_run.backup_answer)
        THEN /\ last_run.backup_answer.by = "backup"
             /\ last_run.rec.final_answer = last_run.backup_answer
             /\ last_run.rec.expert_name = "search_expert"
             /\ "backup_used" \in DOMAIN last_run.rec
             /\ last_run.rec.backup_used = TRUE
        ELSE /\ last_run.rec.final_answer = last_run.expert_answer
             /\ last_run.rec.expert_name = last_run.chosen
             /\ "backup_used" \notin DOMAIN last_run.rec

\* document_expert's answer failed and search_expert's answer replaced it
C6_Witness ==
    /\ Ran /\ FirstAnswerFailed
    /\ last_run.chosen = "document_expert"
    /\ Passes(last_run.backup_answer)
    /\ last_run.rec.final_answer.by = "backup"
    /\ last_run.rec.expert_name = "search_expert"
    /\ "backup_used" \in DOMAIN last_run.rec

\* C7: the backup search_expert is executed at most once per run, and only
\* in a run whose selected expert is not search_expert and returned an
\* answer that failed the evaluation: never after a passing answer, never
\* when search_expert was selected, never after a timeout.
C7_BackupOnlyOnce ==
    Ran =>
        /\ last_run.backup_calls <= 1
        /\ last_run.backup_calls = 1 =>
              (FirstAnswerFailed /\ last_run.chosen # "search_expert")
        /\ Passes(last_run.expert_answer) => last_run.backup_calls = 0
        /\ last_run.chosen = "search_expert" => last_run.backup_calls = 0
        /\ last_run.ended = "timeout" => last_run.backup_calls = 0

\* the backup was executed and its answer failed as well
C7_Witness ==
    /\ Ran /\ last_run.backup_calls = 1
    /\ last_run.chosen = "general_expert"
    /\ last_run.backup_answer.by = "backup"
    /\ ~Passes(last_run.backup_answer)

\* an exception was raised in run() before the backup: by the selection, by
\* the expert, or by the evaluation of its answer
RaisedBeforeBackup ==
    \/ ~last_run.query.isstr
    \/ last_run.ended = "raise"
    \/ last_run.ended = "result" /\ QualityRaises(last_run.expert_answer)

\* C9: run() never raises to its caller; an exception outside the backup
\* run yields a record with error true, the error message (the prefix
\* followed by the text of the exception) as final_answer
\* and performance_stats {success 0, total 0}; an exception of the backup
\* run leaves the selected expert's record.
C9_NeverRaises ==
    Ran =>
        /\ ~last_run.escaped
        /\ RaisedBeforeBackup =>
              /\ "error" \in DOMAIN last_run.rec
              /\ last_run.rec.error = TRUE
              /\ last_run.rec.final_answer.by = "error_message"
              /\ last_run.rec.final_answer.kind = "str"
              /\ last_run.rec.final_answer.slen =
                     (IF last_run.raised.mlen = 0 THEN ErrorPrefixStripped
                      ELSE ErrorPrefixLen + last_run.raised.mlen)
              /\ last_run.rec.performance_stats = [success |-> 0, total |-> 0]
        /\ (~RaisedBeforeBackup /\ last_run.backup_calls = 1
               /\ QualityRaises(last_run.backup_answer)) =>
              /\ "error" \notin DOMAIN last_run.rec
              /\ last_run.rec.expert_name = last_run.chosen

\* a run on an orchestrator with recorded runs ended in the error record
C9_Witness ==
    /\ Ran /\ RaisedBeforeBackup
    /\ \E e \in ExpertNames : expert_performance[e].total > 0
    /\ last_run.rec.error = TRUE
    /\ last_run.rec.expert_name = "unknown"

RequiredKeys ==
    {"final_answer", "expert_name", "expert_description", "llm_thoughts",
     "tool_logs", "plan", "success_evaluation", "performance_stats"}
OptionalKeys == {"backup_used", "timeout", "error"}

\* C10: every record run() returns has the eight keys final_answer,
\* expert_name, expert_description, llm_thoughts, tool_logs, plan,
\* success_evaluation and performance_stats, and beyond them only
\* backup_used, timeout or error.
C10_RecordKeys ==
    Ran =>
        /\ RequiredKeys \subseteq DOMAIN last_run.rec
        /\ (DOMAIN last_run.rec) \ RequiredKeys \subseteq OptionalKeys

\* a run that timed out returned the eight keys and the timeout key
C10_Witness ==
    /\ Ran /\ last_run.ended = "timeout"
    /\ DOMAIN last_run.rec = RequiredKeys \cup {"timeout"}

Selected == selected.primary # ""

\* the counters of the primary choice
PrimaryCounters == expert_performance[selected.primary]

\* success / total < 0.3
BelowThirtyPercent(p) == p.success * 10 < 3 * p.total

TimedOut == last_run.stage = "timeout"

\* thread t takes this step, from position p of run()
StepFrom(t, p) == threads[t].pc = p /\ threads'[t] # threads[t]

\* thread t returns from run() in this step, from position p
ReturnsFrom(t, p) == threads[t].pc = p /\ threads'[t].pc = "idle"

\* C11: a run() whose expert execution times out leaves every expert's
\* counters and the selection history alone, in its step up to the wait
\* and in the step of the timeout handler, and returns a record whose
\* timeout field is true.  (What other calls write meanwhile is theirs.)
C11_TimeoutLeavesCounters ==
    [][ \A t \in Threads :
          /\ StepFrom(t, "idle") =>
                /\ expert_performance' = expert_performance
                /\ selection_history' = selection_history
          /\ (ReturnsFrom(t, "executing") /\ last_run'.ended = "timeout") =>
                /\ expert_performance' = expert_performance
                /\ selection_history' = selection_history
                /\ "timeout" \in DOMAIN last_run'.rec
                /\ last_run'.rec.timeout = TRUE ]_vars

\* a run timed out on an orchestrator with recorded runs while another
\* call was waiting for its expert
C11_Witness ==
    /\ TimedOut
    /\ last_run.rec.timeout = TRUE
    /\ Len(selection_history) >= 1
    /\ expert_performance[last_run.chosen].total >= 1
    /\ \E t \in Threads : threads[t].pc = "executing"

\* C12: the update of a run() in which the selected expert E completes (no
\* timeout, no exception) makes E's total one greater and E's success one
\* greater exactly when the verdict on its answer is true, and leaves the
\* counters of every other expert alone.
C12_SelectedExpertCounted ==
    [][ \A t \in Threads :
          LET E == threads[t].expert IN
          /\ StepFrom(t, "store_total") =>
                /\ expert_performance'[E].total = expert_performance[E].total + 1
                /\ expert_performance'[E].success = expert_performance[E].success
                /\ \A e \in ExpertNames \ {E} :
                       expert_performance'[e] = expert_performance[e]
          /\ StepFrom(t, "store_success") =>
                /\ threads[t].success
                /\ expert_performance'[E].success = expert_performance[E].success + 1
                /\ expert_performance'[E].total = expert_performance[E].total
                /\ \A e \in ExpertNames \ {E} :
                       expert_performance'[e] = expert_performance[e] ]_vars

\* C13: when run() executes search_expert as the fallback, the counters of
\* search_expert are updated with the verdict on the fallback's answer:
\* total one greater, success one greater exactly when that verdict is true.
C13_BackupCounted ==
    [][ \A t \in Threads :
        (/\ ReturnsFrom(t, "backup")
         /\ last_run'.backup_calls = 1
         /\ last_run'.backup_verdict \in {"true", "false"})
        => /\ expert_performance'["search_expert"].total =
                  expert_performance["search_expert"].total + 1
           /\ expert_performance'["search_expert"].success =
                  expert_performance["search_expert"].success
                  + (IF last_run'.backup_verdict = "true" THEN 1 ELSE 0) ]_vars

\* run() has been called and every call has returned
AllReturned == run_count > 0 /\ \A t \in Threads : threads[t].pc = "idle"

RECURSIVE Replayed(_, _)
\* the counters after the first k updates recorded in hist, were each made
\* by an update_expert_performance that nothing interrupts
Replayed(hist, k) ==
    IF k = 0 THEN [e \in ExpertNames |-> [success |-> 0, total |-> 0]]
    ELSE UpdatedPerformance(Replayed(hist, k - 1), hist[k].expert, hist[k].success)

\* C14: when run() is called concurrently on one orchestrator, no counter
\* update is lost under any interleaving: once the calls have returned,
\* each expert's total is the number of updates made for it and its
\* success the number of those with a true verdict (selection_history
\* holds one entry per update, and list.append loses none).
C14_NoLostUpdate ==
    AllReturned =>
        expert_performance = Replayed(selection_history, Len(selection_history))

\* execute() has returned a record
Returned == Done /\ outcome = "returned"

\* C15: in both loops the step fields of the returned tool_logs strictly
\* increase with the position, over the whole execution (rounds of several
\* steps and substitute entries included).
C15_StepsIncrease ==
    Returned =>
        \A i, j \in 1..Len(result.tool_logs) :
            i < j => result.tool_logs[i].step < result.tool_logs[j].step

\* the entries that hold the output of a call (the other entries say that a
\* tool was not found or that no URL was left to try)
CallEntries(logs) == { k \in 1..Len(logs) : logs[k].output \notin {OutNotFound, OutInfo} }

\* C16: every tool.call(...) made by ManusAgent.execute, the substitute
\* calls included, has exactly one entry in the returned tool_logs.
C16_EveryCallLogged ==
    (impl = "manus" /\ Returned) =>
        /\ \A k \in 1..Len(calls) : calls[k].logged
        /\ Cardinality(CallEntries(result.tool_logs)) = Len(calls)

\* C18: search_expert, executed through the orchestrator path
\* (execute_async), whose round-1 plan is a single web_search step that
\* succeeds, ends after round 1: no second planning call is made.
C18_SearchStopsAfterRoundOne ==
    (/\ impl = "expert" /\ self_name = "search_expert"
     /\ Len(first_plan) = 1 /\ first_plan[1].tool = "web_search"
     /\ Len(tool_logs) >= 1
     /\ tool_logs[1].tool = "web_search" /\ tool_logs[1].output = "success")
    => plan_calls = 1

\* C19: ExpertAgent.execute_async never calls a tool other than web_browser
\* twice with the same input: a later step with the same (tool, input), in
\* the same round or a later one, is skipped.
C19_NoRepeatedCall ==
    impl = "expert" =>
        \A i, j \in 1..Len(calls) :
            (i < j /\ calls[i].tool # "web_browser")
            => ~(calls[i].tool = calls[j].tool /\ calls[i].input = calls[j].input)

\* C20: in both loops the plan field of the returned record holds exactly
\* the steps of the first round's plan.  Stated for the executions whose
\* first round produced a plan and that did not end in the exception branch
\* of ExpertAgent.execute (which returns an empty plan).
C20_PlanIsFirstRoundPlan ==
    (Returned /\ first_plan # <<>> /\ result # ExpertErrorResult)
    => result.plan = first_plan

\* C17: register() of a tool whose name is already registered fails and
\* leaves the registry as it was; a name, once registered, keeps the first
\* tool registered under it (and a free name takes the tool).
C17_DuplicateRegisterFails ==
    [][ last_register'.n = last_register.n + 1 =>
        LET name == last_register'.name
            tool == [name |-> name, id |-> last_register'.tool]
            taken == \E x \in tools : x.name = name
        IN /\ taken => (last_register'.raised /\ tools' = tools)
           /\ ~taken => (~last_register'.raised /\ tools' = tools \cup {tool})
           /\ \A x \in tools : x \in tools'
           /\ \A x, y \in tools' : x.name = y.name => x = y ]_vars

\* a second tool object was offered under a registered name and refused:
\* the name still maps to the first object
C17_Witness ==
    /\ last_register.raised
    /\ \E x \in tools : x.name = last_register.name /\ x.id # last_register.tool
    /\ Cardinality(tools) >= 2

\* plan() has been called
PlanCalled == last_plan.returned # "none"

\* C21: in ManusAgent.plan and ExpertAgent.plan, when the LLM's response
\* does not parse as a JSON decision the LLM is invoked again (up to 2
\* attempts), the fallback plan is returned only if the response is still
\* unparseable, and the parse failure does not reach the caller.
C21_RetriesBeforeFallback ==
    (PlanCalled /\ last_plan.resps[1] = "unparseable") =>
        /\ last_plan.llm_calls = PlanMaxRetries
        /\ last_plan.resps[2] = "decision" => last_plan.returned = "decision"
        /\ last_plan.returned = "fallback" => last_plan.resps[2] = "unparseable"
        /\ last_plan.returned # "raised"

\* C22: for an unparseable planning response plan() returns need_tool =
\* true with exactly one step, a web_search on the user input, in
\* ManusAgent and in every expert, for every query.
C22_FallbackIsSingleSearch ==
    (PlanCalled /\ last_plan.resps[1] = "unparseable") =>
        /\ last_plan.returned = "fallback"
        /\ last_plan.decision.need_tool
        /\ Len(last_plan.decision.plan) = 1
        /\ last_plan.decision.plan[1].tool = "web_search"

\* C23: select_expert(query) returns the name of a registered expert (a key
\* of experts and of expert_performance) for every string query, every LLM
\* response (a valid name, other text, an exception) and every state of
\* the performance counters.
C23_SelectsRegisteredExpert ==
    Selected =>
        /\ selected.primary \in ExpertNames
        /\ selected.chosen \in ExpertNames
        /\ selected.chosen \in DOMAIN expert_performance

\* the keyword fallback chose general_expert (the LLM's answer was not a
\* name or the call raised) and the counters replaced it by another expert
C23_Witness ==
    /\ Selected
    /\ selected.primary = "general_expert"
    /\ selected.chosen \in ExpertNames \ {"general_expert"}

\* the score of expert e as the fraction <<numerator, denominator>>:
\* success / total, and 1/2 for an expert without samples
ScoreOf(e) ==
    IF expert_performance[e].total > 0
    THEN <<expert_performance[e].success, expert_performance[e].total>>
    ELSE <<1, 2>>

\* the position of expert e in the registration order
OrderOf(e) == CHOOSE k \in 1..Len(ExpertOrder) : ExpertOrder[k] = e

\* _get_best_performing_expert was called by the last select_expert: the
\* primary choice has more than 5 runs and a success rate below 30%
BestExpertCalled ==
    /\ Selected
    /\ PrimaryCounters.total > 5
    /\ BelowThirtyPercent(PrimaryCounters)

\* C30: the expert _get_best_performing_expert returns has a maximal score
\* (success/total, 0.5 without samples), and among the experts with that
\* score it is the first in registration order (search_expert,
\* document_expert, general_expert).
C30_BestIsFirstMaximal ==
    BestExpertCalled =>
        \A e \in ExpertNames :
            /\ ScoreOf(e)[1] * ScoreOf(selected.chosen)[2]
                  <= ScoreOf(selected.chosen)[1] * ScoreOf(e)[2]
            /\ ScoreOf(e)[1] * ScoreOf(selected.chosen)[2]
                  = ScoreOf(selected.chosen)[1] * ScoreOf(e)[2]
               => OrderOf(selected.chosen) <= OrderOf(e)

\* the best score is shared by an expert without samples and a later
\* expert with half of its runs successful; the earlier one is returned
C30_Witness ==
    /\ BestExpertCalled
    /\ selected.primary = "search_expert"
    /\ selected.chosen = "document_expert"
    /\ expert_performance["document_expert"].total = 0
    /\ expert_performance["general_expert"] = [success |-> 2, total |-> 4]

\* C24: in both loops, when the loop ends without a direct answer the
\* returned final_answer is not empty: an unparseable synthesis response
\* gives the digest of the tool logs, and no synthesis response makes the
\* execution return an empty final_answer.
C24_NeverEmptyHanded ==
    (Returned /\ ended_by # "direct" /\ result # ExpertErrorResult) =>
        /\ IsString(result.final_answer)
        /\ Truthy(result.final_answer)

C29_HeuristicByRequestKind ==
    (impl = "manus" /\ ended_by = "completed") =>
        IF user_input.image
        THEN \E k \in 1..Len(tool_logs) :
                /\ tool_logs[k].tool \in {"web_download", "web_screenshot"}
                /\ tool_logs[k].output = "success"
        ELSE IF user_input.search
        THEN \E k \in 1..Len(tool_logs) :
                tool_logs[k].tool = "web_search" /\ tool_logs[k].output = "success"
        ELSE \E k \in 1..Len(tool_logs) : tool_logs[k].output = "success"

\* the untried image-like URLs of extracted_urls, in extracted order
UntriedImageUrls ==
    SelectSeq(extracted_urls, LAMBDA u : u \in ImageUrls /\ u \notin tried_urls)

\* C26: when a planned web_download step of ManusAgent.execute has untried
\* image-like candidate URLs and every attempted download fails, and
\* web_screenshot is registered and not in failed_tools, a web_screenshot
\* call on the first extracted URL is made as a substitute in the same step.
C26_ScreenshotAfterFailedDownloads ==
    [][ ( /\ AtDownloadStep
          /\ UntriedImageUrls # <<>>
          /\ "web_screenshot" \in Registry
          /\ "web_screenshot" \notin failed_tools
          /\ \A k \in (Len(calls) + 1)..Len(calls') :
                calls'[k].tool = "web_download" => calls'[k].out # "success" )
        => \E k \in (Len(calls) + 1)..Len(calls') :
              /\ calls'[k].tool = "web_screenshot"
              /\ calls'[k].input = extracted_urls[1] ]_vars

\* C27: a planned web_download step of ManusAgent.execute with at least one
\* untried image-like URL in extracted_urls calls the download tool on the
\* candidates in extracted order, on at most 3 of them, adds each attempted
\* URL to tried_urls, and makes no download call after the first successful
\* one (and stops before only then).
C27_DownloadsInOrder ==
    [][ (AtDownloadStep /\ UntriedImageUrls # <<>>) =>
        LET n == Len(calls') - Len(calls)
            made == SubSeq(calls', Len(calls) + 1, Len(calls'))
        IN /\ n >= 1 /\ n <= 3 /\ n <= Len(UntriedImageUrls)
           /\ SubSeq(calls', 1, Len(calls)) = calls
           /\ \A k \in 1..n :
                 /\ made[k].tool = "web_download"
                 /\ made[k].input = UntriedImageUrls[k]
                 /\ made[k].input \in tried_urls'
           /\ \A k \in 1..(n - 1) : made[k].out # "success"
           /\ (n < 3 /\ n < Len(UntriedImageUrls)) => made[n].out = "success"
           /\ tried_urls' = tried_urls \cup { made[k].input : k \in 1..n } ]_vars

\* a web_download step has just made three download calls, none of them
\* successful, with a fourth candidate left
C27_Witness ==
    /\ impl = "manus" /\ pc = "dispatch"
    /\ step_i > 1
    /\ current_plan[step_i - 1].tool = "web_download"
    /\ Len(SelectSeq(extracted_urls, LAMBDA u : u \in ImageUrls)) >= 4
    /\ Len(calls) >= 4
    /\ \A k \in (Len(calls) - 2)..Len(calls) :
          calls[k].tool = "web_download" /\ calls[k].out # "success"
    /\ calls[Len(calls) - 3].tool = "web_search"
    /\ calls[Len(calls) - 2].input # calls[Len(calls) - 1].input

\* the for loop of a round that dispatched tools is over, before the last round
AtEndOfRound ==
    /\ impl = "manus" /\ pc = "dispatch"
    /\ step_i > Len(current_plan)
    /\ tools_executed # {}
    /\ round_num < ManusMaxRounds

\* C28: ManusAgent.execute leaves the loop early at the end of a round in
\* which tools were dispatched if and only if at least one tool call made
\* in that round succeeded and the task-completion heuristic holds.
C28_EarlyEndIffSuccess ==
    [][ AtEndOfRound =>
        ( ended_by' = "completed"
          <=> ( /\ \E k \in 1..Len(current_tool_logs) :
                     current_tool_logs[k].output = "success"
                /\ IsTaskCompleted(user_input, tool_logs') ) ) ]_vars

\* C31: for every query, when the LLM would classify the query as a
\* registered expert name and the performance override does not apply to
\* that expert, select_expert returns that name; the primary choice differs
\* from the LLM's answer only when that answer is not a registered name or
\* the LLM call fails.
C31_LlmChoiceDecides ==
    Selected =>
        /\ ( /\ selected.llm \in ExpertNames
             /\ ~ ( /\ expert_performance[selected.llm].total > 5
                    /\ BelowThirtyPercent(expert_performance[selected.llm]) ) )
           => selected.chosen = selected.llm
        /\ selected.primary # selected.llm => selected.llm \notin ExpertNames

\* C32: in both loops a plan step that names a tool absent from the registry
\* is not fatal: the step (unless ExpertAgent skips it as a repetition of an
\* earlier call) appends an entry whose output says that the tool was not
\* found, the loop goes on to the next step of the same plan, and the entry
\* is kept: it stays in the round's log until it is part of tool_logs.
C32_AbsentToolNotFatal ==
    [][ /\ ( /\ pc = "dispatch"
             /\ step_i <= Len(current_plan)
             /\ current_plan[step_i].wellformed
             /\ current_plan[step_i].tool \notin Registry
             /\ ~ ( /\ impl = "expert"
                    /\ AlreadyExecuted(current_plan[step_i].tool,
                                       current_plan[step_i].input) ) )
           => /\ current_tool_logs' =
                    Append(current_tool_logs,
                           [step |-> Len(tool_logs) + 1,
                            tool |-> current_plan[step_i].tool,
                            input |-> current_plan[step_i].input,
                            output |-> OutNotFound])
              /\ current_plan' = current_plan
              /\ step_i' = step_i + 1
              /\ pc' = "dispatch"
        /\ \A k \in 1..Len(current_tool_logs) :
              current_tool_logs[k].output = OutNotFound
              => \/ \E j \in 1..Len(current_tool_logs') :
                       current_tool_logs'[j] = current_tool_logs[k]
                 \/ \E j \in 1..Len(tool_logs') :
                       tool_logs'[j] = current_tool_logs[k]
      ]_vars

\* C33: in both loops a tool whose call() raises does not abort the round
\* or the query: the step that made the call appends an entry for that tool
\* and input whose output is not a success, and the loop goes on to the next
\* step of the same plan.
C33_RaisedCallRecorded ==
    [][ \A k \in (Len(calls) + 1)..Len(calls') :
          calls'[k].out = "raise"
          => /\ \E j \in (Len(current_tool_logs) + 1)..Len(current_tool_logs') :
                   /\ current_tool_logs'[j].tool = calls'[k].tool
                   /\ current_tool_logs'[j].input = calls'[k].input
                   /\ ~Succeeded(current_tool_logs'[j].output)
             /\ current_plan' = current_plan
             /\ step_i' = step_i + 1
             /\ pc' = "dispatch"
      ]_vars

\* C34: for every raw result string the outcome of _parse_tool_result has a
\* status in {success, failed, unknown}: a string that does not parse and a
\* record without a status field give unknown, and the "[Exception] ..."
\* output recorded for a raised call gives failed.
C34_StatusIsEnum ==
    \A k \in 1..Len(parse_log) :
        /\ parse_log[k].outcome.status \in {"success", "failed", "unknown"}
        /\ parse_log[k].raw \in {OutNotFound, OutInfo, OutNoStatus}
           => parse_log[k].outcome.status = "unknown"
        /\ parse_log[k].raw = OutException
           => parse_log[k].outcome.status = "failed"

\* the step on which the planner answered need_tool = false
DirectDecision == ended_by # "direct" /\ ended_by' = "direct"

\* what holds of a step taken once the planner has answered need_tool =
\* false: the loop is left, no plan() call, no tool call and no log entry
\* follows, and the only step left is the return
AfterDirectDecision ==
    /\ pc = "final"
    /\ pc' = "done"
    /\ round_num' = round_num
    /\ plan_calls' = plan_calls
    /\ calls' = calls
    /\ tool_logs' = tool_logs
    /\ plans' = plans

\* C35 (amended): in both loops, when the planner answers need_tool = false
\* in round r the loop ends in round r: the decision dispatches nothing, and
\* no tool call and no planning call follows it.  When the decision's
\* final_answer is a non-empty string the loop returns it; an empty or
\* missing final_answer is replaced by the answer of the final block.
C35_DirectAnswerTerminates ==
    [][ /\ DirectDecision
           => /\ pc' = "final"
              /\ round_num' = round_num + 1
              /\ calls' = calls
              /\ tool_logs' = tool_logs
        /\ ended_by = "direct"
           => /\ AfterDirectDecision
              /\ final_answer \notin {AnsEmpty, AnsNull}
                 => /\ outcome' = "returned"
                    /\ result'.final_answer = final_answer
      ]_vars

\* a round of tool calls, then need_tool = false with an answer in round 2,
\* and that answer returned
C35_Witness ==
    /\ Returned
    /\ ended_by = "direct"
    /\ round_num = 2
    /\ Len(calls) > 0
    /\ result.final_answer = AnsStr

\* C35 as stated: whatever the decision's final_answer is, a loop that
\* returns after the decision returns that answer.
C35_AsStated ==
    [][ ended_by = "direct"
        => /\ AfterDirectDecision
           /\ outcome' = "returned" => result'.final_answer = final_answer
      ]_vars

\* the verdict C36 states for an answer: not empty, at least 10 characters,
\* no negative-outcome phrase, and a positive-outcome phrase or more than
\* 30 characters
AcceptedAsStated(a) ==
    /\ a.kind = "str"
    /\ a.slen >= 10
    /\ ~a.neg
    /\ (a.pos \/ a.slen > 30)

\* the last run() evaluated the answer of the selected expert
PrimaryEvaluated ==
    /\ Ran
    /\ last_run.ended = "result"
    /\ last_run.exc_stage # "quality"

\* the last run() evaluated the answer of the backup
BackupEvaluated ==
    /\ Ran
    /\ last_run.backup_calls = 1
    /\ last_run.backup_verdict # "raised"

\* C36: _evaluate_result_quality rejects an answer that is empty (or None)
\* or shorter than 10 characters, rejects an answer with a negative-outcome
\* phrase even if it also has a positive-outcome phrase or is long, and
\* otherwise accepts exactly when the answer has a positive-outcome phrase
\* or is longer than 30 characters.  Stated of both evaluations of run(),
\* for answers that are strings or None.
C36_QualityVerdict ==
    /\ PrimaryEvaluated
       => (last_run.first_verdict = "true" <=> AcceptedAsStated(last_run.expert_answer))
    /\ BackupEvaluated
       => (last_run.backup_verdict = "true" <=> AcceptedAsStated(last_run.backup_answer))

\* an answer with both a negative and a positive phrase was rejected, and
\* the long backup answer with a negative phrase was rejected too
C36_Witness ==
    /\ PrimaryEvaluated
    /\ last_run.expert_answer.neg /\ last_run.expert_answer.pos
    /\ last_run.first_verdict = "false"
    /\ BackupEvaluated
    /\ last_run.backup_answer.neg /\ last_run.backup_answer.slen > 30
    /\ last_run.backup_verdict = "false"

\* C37: in ManusAgent.execute a substitute tool is not called once it is in
\* failed_tools: every call a step makes to a tool other than the step's own
\* (web_screenshot for a web_download step, web_download for a failed
\* web_screenshot step) is to a tool that is not in failed_tools, in every
\* round.
C37_NoFailedSubstitute ==
    [][ (impl = "manus" /\ pc = "dispatch" /\ step_i <= Len(current_plan))
        => \A k \in (Len(calls) + 1)..Len(calls') :
              calls'[k].tool # current_plan[step_i].tool
              => calls'[k].tool \notin failed_tools
      ]_vars

\* a web_download step found no image URL while web_screenshot was in
\* failed_tools and page URLs were at hand: it wrote its note and made no
\* call (the last call is still an earlier web_download call)
C37_Witness ==
    /\ impl = "manus"
    /\ "web_screenshot" \in failed_tools
    /\ extracted_urls # <<>>
    /\ current_tool_logs # <<>>
    /\ current_tool_logs[Len(current_tool_logs)].tool = "web_download"
    /\ current_tool_logs[Len(current_tool_logs)].output = OutInfo
    /\ calls # <<>>
    /\ calls[Len(calls)].tool = "web_download"

\* C38: in every state reached by sequential run() calls, whether they
\* complete, time out or fail, every expert's counters satisfy
\* 0 <= success <= total.
C38_CountersOrdered ==
    \A e \in ExpertNames :
        /\ 0 <= expert_performance[e].success
        /\ expert_performance[e].success <= expert_performance[e].total

\* after the last of the runs one expert has both a recorded success and a
\* recorded failure, one of them recorded by these runs, and the last run
\* was not recorded (timeout or error)
C38_Witness ==
    /\ run_count = MaxRuns
    /\ last_run.stage \in {"timeout", "error"}
    /\ Len(selection_history) = MinRuns + 1
    /\ \E e \in ExpertNames :
          /\ expert_performance[e].success >= 1
          /\ expert_performance[e].total > expert_performance[e].success

\* a run() call returned a record with error = true in this step: from
\* the selection (the thread is back where it was) or from the wait for
\* the expert
ReturnsErrorRecord ==
    /\ \/ run_count' = run_count + 1 /\ threads' = threads
       \/ \E t \in Threads : ReturnsFrom(t, "executing")
    /\ last_run'.stage = "error"
    /\ "error" \in DOMAIN last_run'.rec

\* C39: a run() that returns a record with error = true has changed no
\* expert's performance counters and has appended nothing to
\* selection_history: neither its step up to the wait for the expert nor
\* the step that returns the record writes them.
C39_ErrorRunLeavesCounters ==
    [][ /\ ReturnsErrorRecord
           => /\ expert_performance' = expert_performance
              /\ selection_history' = selection_history
        /\ \A t \in Threads : StepFrom(t, "idle")
           => /\ expert_performance' = expert_performance
              /\ selection_history' = selection_history
      ]_vars

\* after a recorded run, a run whose expert returned an answer that is not
\* a string: the evaluation raised and the error record was returned
C39_Witness ==
    /\ run_count >= 2
    /\ last_run.stage = "error"
    /\ last_run.exc_stage = "quality"
    /\ "error" \in DOMAIN last_run.rec
    /\ selection_history # <<>>

=============================================================================
